---------------------------- MODULE Spec2Model ----------------------------
(***************************************************************************)
(* Klondike solitaire engine: the card containers (Deck, Pile, Foundation), *)
(* the two-phase move protocol (CardMover) and the game aggregate           *)
(* (KlondikeMockable) with its action history and undo.                     *)
(*                                                                          *)
(* Vectors are sequences whose last element is the top card.  Rust indices  *)
(* are 0-based: element i of a Vec is element i + 1 of the sequence.        *)
(***************************************************************************)
EXTENDS Integers, Sequences, FiniteSets, TLC

(***************************************************************************)
(* american_cards.rs                                                        *)
(***************************************************************************)
CardSuit == <<"CLUBS", "DIAMONDS", "HEARTS", "SPADES">>

ACE == 1

KING == 13

CardRank == ACE..KING

Card(s, r) == [suit |-> s, rank |-> r]

\* mutant: the colours are not compared
check_descending_rank_only(first, second) ==
    second.rank + 1 = first.rank

check_alternate_colors_and_descending_rank(first, second) ==
    /\ second.rank + 1 = first.rank
    /\ IF second.suit \in {"DIAMONDS", "HEARTS"}
       THEN first.suit = "CLUBS" \/ first.suit = "SPADES"
       ELSE first.suit = "DIAMONDS" \/ first.suit = "HEARTS"

(***************************************************************************)
(* Vec helpers                                                              *)
(***************************************************************************)
RECURSIVE reverse(_)
reverse(s) == IF s = <<>> THEN <<>> ELSE Append(reverse(Tail(s)), Head(s))

\* the last n elements of s (s[len - n..])
LastN(s, n) == SubSeq(s, Len(s) - n + 1, Len(s))

\* s without its last n elements
DropLastN(s, n) == SubSeq(s, 1, Len(s) - n)

\* the elements of s
Range(s) == {s[i] : i \in DOMAIN s}

\* Option<Vec<Card>>
None == [some |-> FALSE, cards |-> <<>>]

Some(cs) == [some |-> TRUE, cards |-> cs]

(***************************************************************************)
(* deck.rs                                                                  *)
(***************************************************************************)
Deck_peek(d, number) ==
    IF number = 1 /\ d.waste # <<>>
    THEN [c |-> [d EXCEPT !.waste = DropLastN(@, 1)], cards |-> LastN(d.waste, 1)]
    ELSE [c |-> d, cards |-> <<>>]

\* mutant: any positive number of cards is offered the top card
Deck_try_peek_any_number(d, number) ==
    IF number >= 1 /\ Len(d.waste) > 0 THEN Some(LastN(d.waste, 1)) ELSE None

Deck_try_peek(d, number) ==
    IF number = 1 /\ Len(d.waste) > 0 THEN Some(LastN(d.waste, 1)) ELSE None

\* mutant: the card goes back onto the stock
Deck_undo_peek_to_stock(d, cards) ==
    IF Len(cards) = 1 THEN [d EXCEPT !.stock = Append(@, cards[1])] ELSE d

Deck_undo_peek(d, cards) ==
    IF Len(cards) = 1 THEN [d EXCEPT !.waste = Append(@, cards[1])] ELSE d

\* mutant: the waste goes back to the stock without being reversed
Deck_take_no_reverse(d) ==
    LET flip == d.stock = <<>> /\ d.waste # <<>>
        stock == IF flip THEN d.waste ELSE d.stock
        waste == IF flip THEN <<>> ELSE d.waste
    IN  [stock |-> DropLastN(stock, IF stock = <<>> THEN 0 ELSE 1),
         waste |-> waste \o LastN(stock, IF stock = <<>> THEN 0 ELSE 1),
         take_caused_flip |-> Append(d.take_caused_flip, flip)]

\* mutant: after the waste has gone back to the stock no card is drawn
Deck_take_flip_only(d) ==
    LET flip == d.stock = <<>> /\ d.waste # <<>>
    IN  IF flip
        THEN [stock |-> d.stock \o reverse(d.waste), waste |-> <<>>,
              take_caused_flip |-> Append(d.take_caused_flip, TRUE)]
        ELSE IF d.stock # <<>>
        THEN [stock |-> DropLastN(d.stock, 1),
              waste |-> Append(d.waste, d.stock[Len(d.stock)]),
              take_caused_flip |-> Append(d.take_caused_flip, FALSE)]
        ELSE [d EXCEPT !.take_caused_flip = Append(@, FALSE)]

Deck_take(d) ==
    LET flip == d.stock = <<>> /\ d.waste # <<>>
        d1 == IF flip
              THEN [stock |-> d.stock \o reverse(d.waste), waste |-> <<>>,
                    take_caused_flip |-> Append(d.take_caused_flip, TRUE)]
              ELSE [d EXCEPT !.take_caused_flip = Append(@, FALSE)]
    IN  IF d1.stock # <<>>
        THEN [d1 EXCEPT !.stock = DropLastN(@, 1),
                        !.waste = Append(@, d1.stock[Len(d1.stock)])]
        ELSE d1

\* mutant: no card is taken to the waste
Deck_new_no_take(cards) ==
    [stock |-> cards, waste |-> <<>>, take_caused_flip |-> <<>>]

Deck_new(cards) ==
    Deck_take([stock |-> cards, waste |-> <<>>, take_caused_flip |-> <<>>])

Deck_get_status(d) ==
    [cards_on_waste |-> Len(d.waste),
     cards_on_stock |-> Len(d.stock),
     top_card_on_waste |-> IF d.waste # <<>> THEN Some(LastN(d.waste, 1)) ELSE None]

\* mutant: the flip of the undone take is not reversed
Deck_undo_take_no_unflip(d) ==
    IF d.waste # <<>>
    THEN [d EXCEPT !.waste = DropLastN(@, 1),
                   !.stock = Append(@, d.waste[Len(d.waste)]),
                   !.take_caused_flip = DropLastN(@, IF @ = <<>> THEN 0 ELSE 1)]
    ELSE [d EXCEPT !.take_caused_flip = DropLastN(@, IF @ = <<>> THEN 0 ELSE 1)]

Deck_undo_take(d) ==
    LET d1 == IF d.waste # <<>>
              THEN [d EXCEPT !.waste = DropLastN(@, 1),
                             !.stock = Append(@, d.waste[Len(d.waste)])]
              ELSE d
        flipped == IF d1.take_caused_flip # <<>>
                   THEN d1.take_caused_flip[Len(d1.take_caused_flip)]
                   ELSE FALSE
        d2 == [d1 EXCEPT !.take_caused_flip = DropLastN(@, IF @ = <<>> THEN 0 ELSE 1)]
    IN  IF flipped /\ d2.waste = <<>> /\ d2.stock # <<>>
        THEN [d2 EXCEPT !.waste = @ \o reverse(d2.stock), !.stock = <<>>]
        ELSE d2

(***************************************************************************)
(* pile.rs                                                                  *)
(***************************************************************************)
Pile_new == [cards |-> <<>>]

Pile_get_status(p) ==
    [top_card |-> IF p.cards # <<>> THEN Some(LastN(p.cards, 1)) ELSE None,
     num_cards |-> Len(p.cards)]

Pile_try_peek(p, number) ==
    IF number = 1 /\ p.cards # <<>> THEN Some(LastN(p.cards, 1)) ELSE None

\* mutant: the top card is popped whatever number is asked
Pile_peek_any_number(p, number) ==
    IF p.cards # <<>>
    THEN [c |-> [p EXCEPT !.cards = DropLastN(@, 1)], cards |-> LastN(p.cards, 1)]
    ELSE [c |-> p, cards |-> <<>>]

Pile_peek(p, number) ==
    IF number = 1 /\ p.cards # <<>>
    THEN [c |-> [p EXCEPT !.cards = DropLastN(@, 1)], cards |-> LastN(p.cards, 1)]
    ELSE [c |-> p, cards |-> <<>>]

Pile_undo_peek(p, cards) ==
    IF Len(cards) = 1 THEN [p EXCEPT !.cards = Append(@, cards[1])] ELSE p

\* mutant: an empty Pile accepts any single card
Pile_try_poke_any_on_empty(p, cards) ==
    IF Len(cards) # 1 THEN FALSE
    ELSE IF p.cards = <<>> THEN TRUE
    ELSE p.cards[Len(p.cards)].suit = cards[1].suit
         /\ cards[1].rank = p.cards[Len(p.cards)].rank + 1

Pile_try_poke(p, cards) ==
    IF Len(cards) # 1 THEN FALSE
    ELSE IF p.cards = <<>> THEN cards[1].rank = ACE
    ELSE LET last_card == p.cards[Len(p.cards)]
             card == cards[1]
         IN  last_card.suit = card.suit /\ card.rank = last_card.rank + 1

\* mutant: the first offered card is pushed without asking try_poke
Pile_poke_unchecked(p, cards) ==
    IF cards # <<>> THEN [p EXCEPT !.cards = Append(@, cards[1])] ELSE p

Pile_poke(p, cards) ==
    IF Pile_try_poke(p, cards) THEN [p EXCEPT !.cards = Append(@, cards[1])] ELSE p

\* mutant: the card is returned but stays on the Pile
Pile_undo_poke_keeps_card(p, number) ==
    IF number = 1 /\ p.cards # <<>>
    THEN [c |-> p, cards |-> LastN(p.cards, 1)]
    ELSE [c |-> p, cards |-> <<>>]

Pile_undo_poke(p, number) ==
    IF number = 1 /\ p.cards # <<>>
    THEN [c |-> [p EXCEPT !.cards = DropLastN(@, 1)], cards |-> LastN(p.cards, 1)]
    ELSE [c |-> p, cards |-> <<>>]

(***************************************************************************)
(* foundation.rs                                                            *)
(***************************************************************************)
\* mutant: a single card is refused as well
Foundation_new_panics_on_one(cards) == Len(cards) <= 1

\* Foundation::new computes cards.len() - 1 on a usize. On an empty vector a debug
\* build panics on the subtraction; a release build wraps it to usize::MAX and
\* panics on the slice cards[..usize::MAX]. Either build panics.
Foundation_new_panics(cards) == Len(cards) = 0

\* what Foundation::new returns when it does not panic
Foundation_new(cards) ==
    [hidden |-> DropLastN(cards, 1),
     visible |-> LastN(cards, 1),
     peek_caused_flip |-> <<>>]

\* mutant: zero cards can be peeked
Foundation_can_peek_zero(f, number) == number >= 0 /\ number <= Len(f.visible)

Foundation_can_peek(f, number) == number > 0 /\ number <= Len(f.visible)

Foundation_get_status(f) == [num_hidden |-> Len(f.hidden), visible |-> f.visible]

Foundation_try_peek(f, number) ==
    IF Foundation_can_peek(f, number) THEN Some(LastN(f.visible, number)) ELSE None

\* mutant: no hidden card is turned when the visible ones are all taken
Foundation_peek_no_flip(f, number) ==
    IF Foundation_can_peek(f, number)
    THEN [c |-> [f EXCEPT !.visible = DropLastN(@, number),
                          !.peek_caused_flip = Append(@, FALSE)],
          cards |-> LastN(f.visible, number)]
    ELSE [c |-> f, cards |-> <<>>]

\* mutant: every hidden card is turned when the visible ones are all taken
Foundation_peek_flips_all(f, number) ==
    IF Foundation_can_peek(f, number)
    THEN LET rest == DropLastN(f.visible, number)
             flipped == rest = <<>> /\ f.hidden # <<>>
         IN  [c |-> [hidden |-> IF flipped THEN <<>> ELSE f.hidden,
                     visible |-> IF flipped THEN f.hidden ELSE rest,
                     peek_caused_flip |-> Append(f.peek_caused_flip, flipped)],
              cards |-> LastN(f.visible, number)]
    ELSE [c |-> f, cards |-> <<>>]

\* mutant: a flag is pushed only by a peek that turns a hidden card
Foundation_peek_flag_on_flip_only(f, number) ==
    IF Foundation_can_peek(f, number)
    THEN LET rest == DropLastN(f.visible, number)
             flipped == rest = <<>> /\ f.hidden # <<>>
         IN  [c |-> [hidden |-> IF flipped THEN DropLastN(f.hidden, 1) ELSE f.hidden,
                     visible |-> IF flipped THEN LastN(f.hidden, 1) ELSE rest,
                     peek_caused_flip |-> IF flipped THEN Append(f.peek_caused_flip, TRUE)
                                          ELSE f.peek_caused_flip],
              cards |-> LastN(f.visible, number)]
    ELSE [c |-> f, cards |-> <<>>]

Foundation_peek(f, number) ==
    IF Foundation_can_peek(f, number)
    THEN LET res == LastN(f.visible, number)
             rest == DropLastN(f.visible, number)
             flipped == rest = <<>> /\ f.hidden # <<>>
         IN  [c |-> [hidden |-> IF flipped THEN DropLastN(f.hidden, 1) ELSE f.hidden,
                     visible |-> IF flipped THEN LastN(f.hidden, 1) ELSE rest,
                     peek_caused_flip |-> Append(f.peek_caused_flip, flipped)],
              cards |-> res]
    ELSE [c |-> f, cards |-> <<>>]

\* mutant: the turned card is not hidden again
Foundation_undo_peek_no_rehide(f, cards) ==
    [f EXCEPT !.peek_caused_flip = DropLastN(@, IF @ = <<>> THEN 0 ELSE 1),
              !.visible = @ \o cards]

\* mutant: the flag of the undone peek is read but stays on the stack
Foundation_undo_peek_keep_flag(f, cards) ==
    LET flipped == IF f.peek_caused_flip # <<>>
                   THEN f.peek_caused_flip[Len(f.peek_caused_flip)]
                   ELSE FALSE
        f2 == IF flipped /\ Len(f.visible) = 1 /\ Len(cards) > 0
              THEN [f EXCEPT !.hidden = Append(@, f.visible[1]), !.visible = <<>>]
              ELSE f
    IN  [f2 EXCEPT !.visible = @ \o cards]

\* mutant: a single visible card is hidden whatever the flag says
Foundation_undo_peek_hides_unflagged(f, cards) ==
    LET f1 == [f EXCEPT !.peek_caused_flip = DropLastN(@, IF @ = <<>> THEN 0 ELSE 1)]
        f2 == IF Len(f1.visible) = 1 /\ Len(cards) > 0
              THEN [f1 EXCEPT !.hidden = Append(@, f1.visible[1]), !.visible = <<>>]
              ELSE f1
    IN  [f2 EXCEPT !.visible = @ \o cards]

Foundation_undo_peek(f, cards) ==
    LET flipped == IF f.peek_caused_flip # <<>>
                   THEN f.peek_caused_flip[Len(f.peek_caused_flip)]
                   ELSE FALSE
        f1 == [f EXCEPT !.peek_caused_flip = DropLastN(@, IF @ = <<>> THEN 0 ELSE 1)]
        f2 == IF flipped /\ Len(f1.visible) = 1 /\ Len(cards) > 0
              THEN [f1 EXCEPT !.hidden = Append(@, f1.visible[1]), !.visible = <<>>]
              ELSE f1
    IN  [f2 EXCEPT !.visible = @ \o cards]

Foundation_try_poke(f, cards) ==
    IF cards = <<>> THEN FALSE
    ELSE IF f.visible = <<>> THEN cards[1].rank = KING
    ELSE check_alternate_colors_and_descending_rank(f.visible[Len(f.visible)], cards[1])

\* mutant: the cards are laid down top card first
Foundation_poke_reversed(f, cards) ==
    IF Foundation_try_poke(f, cards) THEN [f EXCEPT !.visible = @ \o reverse(cards)] ELSE f

Foundation_poke(f, cards) ==
    IF Foundation_try_poke(f, cards) THEN [f EXCEPT !.visible = @ \o cards] ELSE f

\* mutant: the cards come back top card first
Foundation_undo_poke_reversed(f, number) ==
    IF Len(f.visible) >= number
    THEN [c |-> [f EXCEPT !.visible = DropLastN(@, number)],
          cards |-> reverse(LastN(f.visible, number))]
    ELSE [c |-> f, cards |-> <<>>]

Foundation_undo_poke(f, number) ==
    IF Len(f.visible) >= number
    THEN [c |-> [f EXCEPT !.visible = DropLastN(@, number)], cards |-> LastN(f.visible, number)]
    ELSE [c |-> f, cards |-> <<>>]

(***************************************************************************)
(* card_containers.rs: the trait objects and the CardMover                  *)
(***************************************************************************)
\* dyn CardOrigin: dispatch on the concrete container behind the reference
CardOrigin_try_peek(kind, c, number) ==
    CASE kind = "DECK" -> Deck_try_peek(c, number)
      [] kind = "PILE" -> Pile_try_peek(c, number)
      [] kind = "FOUNDATION" -> Foundation_try_peek(c, number)

CardOrigin_peek(kind, c, number) ==
    CASE kind = "DECK" -> Deck_peek(c, number)
      [] kind = "PILE" -> Pile_peek(c, number)
      [] kind = "FOUNDATION" -> Foundation_peek(c, number)

CardOrigin_undo_peek(kind, c, cards) ==
    CASE kind = "DECK" -> Deck_undo_peek(c, cards)
      [] kind = "PILE" -> Pile_undo_peek(c, cards)
      [] kind = "FOUNDATION" -> Foundation_undo_peek(c, cards)

\* dyn CardDestination (Deck does not implement it)
CardDestination_try_poke(kind, c, cards) ==
    CASE kind = "PILE" -> Pile_try_poke(c, cards)
      [] kind = "FOUNDATION" -> Foundation_try_poke(c, cards)

CardDestination_poke(kind, c, cards) ==
    CASE kind = "PILE" -> Pile_poke(c, cards)
      [] kind = "FOUNDATION" -> Foundation_poke(c, cards)

CardDestination_undo_poke(kind, c, number) ==
    CASE kind = "PILE" -> Pile_undo_poke(c, number)
      [] kind = "FOUNDATION" -> Foundation_undo_poke(c, number)

\* mutant: the destination is poked twice with the peeked cards
poke_peeked_twice(peeked, dkind, destination) ==
    [origin |-> peeked.c,
     destination |-> CardDestination_poke(dkind,
                         CardDestination_poke(dkind, destination, peeked.cards), peeked.cards),
     ret |-> TRUE,
     calls |-> <<"try_peek", "try_poke", "peek", "poke", "poke">>]

\* destination.poke(&origin.peek(number)), peeked being what origin.peek returned;
\* calls lists the trait methods the mover has invoked, in order
poke_peeked(peeked, dkind, destination) ==
    [origin |-> peeked.c,
     destination |-> CardDestination_poke(dkind, destination, peeked.cards),
     ret |-> TRUE,
     calls |-> <<"try_peek", "try_poke", "peek", "poke">>]

\* mutant: the origin is peeked before the destination is asked
move_if_accepted_peek_first(try_cards, okind, origin, dkind, destination, number) ==
    IF try_cards.some
    THEN IF CardDestination_try_poke(dkind, destination, try_cards.cards)
         THEN poke_peeked(CardOrigin_peek(okind, origin, number), dkind, destination)
         ELSE [origin |-> CardOrigin_peek(okind, origin, number).c,
               destination |-> destination, ret |-> FALSE,
               calls |-> <<"try_peek", "peek", "try_poke">>]
    ELSE [origin |-> origin, destination |-> destination, ret |-> FALSE,
          calls |-> <<"try_peek">>]

\* the body of CardMover::move_cards, try_cards being what origin.try_peek returned
move_if_accepted(try_cards, okind, origin, dkind, destination, number) ==
    IF try_cards.some /\ CardDestination_try_poke(dkind, destination, try_cards.cards)
    THEN poke_peeked(CardOrigin_peek(okind, origin, number), dkind, destination)
    ELSE [origin |-> origin, destination |-> destination, ret |-> FALSE,
          calls |-> IF try_cards.some THEN <<"try_peek", "try_poke">> ELSE <<"try_peek">>]

\* CardMover::move_cards; the result holds both containers as the call leaves them
CardMover_move_cards(okind, origin, dkind, destination, number) ==
    move_if_accepted(CardOrigin_try_peek(okind, origin, number),
                     okind, origin, dkind, destination, number)

\* origin.undo_peek(&unpoked.cards), unpoked being what destination.undo_poke returned
undo_peek_unpoked(unpoked, okind, origin) ==
    [origin |-> CardOrigin_undo_peek(okind, origin, unpoked.cards),
     destination |-> unpoked.c,
     ret |-> TRUE,
     calls |-> <<"undo_poke", "undo_peek">>]

CardMover_undo_move_cards(okind, origin, dkind, destination, number) ==
    undo_peek_unpoked(CardDestination_undo_poke(dkind, destination, number), okind, origin)

(***************************************************************************)
(* klondike/mod.rs                                                          *)
(***************************************************************************)
DECK == [kind |-> "DECK", idx |-> 0]

PILE(i) == [kind |-> "PILE", idx |-> i]

FOUNDATION(i) == [kind |-> "FOUNDATION", idx |-> i]

\* KlondikeAction
KlondikeAction_MOVE(origin, destination, number) ==
    [kind |-> "MOVE", origin |-> origin, destination |-> destination, number |-> number]

KlondikeAction_TAKE == [kind |-> "TAKE", origin |-> DECK, destination |-> DECK, number |-> 0]

\* the number of Piles of a game
NumPiles == 4

\* the cascade size of the last Foundation (for i in 1..8)
LastCascade == 7

\* 4 suits of 13 ranks
DeckSize == Len(CardSuit) * KING

\* generate_randomized_card_deck before the shuffle: suit-major, rank-minor
FullDeck ==
    [i \in 1..DeckSize |-> Card(CardSuit[((i - 1) \div KING) + 1], ((i - 1) % KING) + 1)]

\* a call either returns a bool with the game as the call left it, or panics
Returned(g, r) == [g |-> g, ret |-> r, panic |-> FALSE]

Panicked(g) == [g |-> g, ret |-> FALSE, panic |-> TRUE]

\* vector[idx] panics unless idx < len
InBounds(vector, idx) == idx < Len(vector)

\* the container behind a mutable reference: the Deck, or position pos (1-based)
\* of the piles or of the foundations
Fetch(g, kind, pos) ==
    CASE kind = "DECK" -> g.deck
      [] kind = "PILE" -> g.piles[pos]
      [] kind = "FOUNDATION" -> g.foundations[pos]

\* the game after a write through that reference
Store(g, kind, pos, c) ==
    CASE kind = "DECK" -> [g EXCEPT !.deck = c]
      [] kind = "PILE" -> [g EXCEPT !.piles[pos] = c]
      [] kind = "FOUNDATION" -> [g EXCEPT !.foundations[pos] = c]

\* exec_move_cards!
exec_move_cards(okind, origin, dkind, destination, number, is_undo) ==
    IF is_undo
    THEN CardMover_undo_move_cards(okind, origin, dkind, destination, number)
    ELSE CardMover_move_cards(okind, origin, dkind, destination, number)

\* The two references are given as positions (1-based) in the vector.
\* split_at_mut(mid) panics when mid > len, indexing a half panics past its end.
extract_two_mutable_elements(vector, first_idx, second_idx) ==
    IF first_idx < second_idx
    THEN LET mid == first_idx + 1
             k == second_idx - first_idx - 1
         IN  IF mid > Len(vector) \/ k >= Len(vector) - mid
             THEN [panic |-> TRUE, first |-> 0, second |-> 0]
             ELSE [panic |-> FALSE, first |-> first_idx + 1, second |-> mid + k + 1]
    ELSE IF first_idx > second_idx
    THEN LET mid == second_idx + 1
             k == first_idx - second_idx - 1
         IN  IF mid > Len(vector) \/ k >= Len(vector) - mid
             THEN [panic |-> TRUE, first |-> 0, second |-> 0]
             ELSE [panic |-> FALSE, first |-> mid + k + 1, second |-> second_idx + 1]
    ELSE [panic |-> TRUE, first |-> 0, second |-> 0]

\* mutant: equal indices pass the check
sanitary_check_fails_unless_equal(elements, origin_idx, dest_idx) ==
    elements < origin_idx \/ elements < dest_idx

\* the sanitary check of the same-collection branches
sanitary_check_fails(elements, origin_idx, dest_idx) ==
    origin_idx = dest_idx \/ elements < origin_idx \/ elements < dest_idx

\* what the call leaves behind the two mutable references and what it returns
Moved(g, okind, opos, dkind, dpos, r) ==
    Returned(Store(Store(g, okind, opos, r.origin), dkind, dpos, r.destination), r.ret)

\* both references taken out of one vector
exec_on_extracted(g, kind, e, number, is_undo) ==
    IF e.panic THEN Panicked(g)
    ELSE Moved(g, kind, e.first, kind, e.second,
               exec_move_cards(kind, Fetch(g, kind, e.first),
                               kind, Fetch(g, kind, e.second), number, is_undo))

do_move_cards(g, origin, destination, number, is_undo) ==
    CASE destination.kind = "FOUNDATION" ->
        (CASE origin.kind = "FOUNDATION" ->
              IF sanitary_check_fails(Len(g.foundations), origin.idx, destination.idx)
              THEN Returned(g, FALSE)
              ELSE exec_on_extracted(g, "FOUNDATION",
                       extract_two_mutable_elements(g.foundations, origin.idx, destination.idx),
                       number, is_undo)
           [] origin.kind = "PILE" ->
              IF ~InBounds(g.piles, origin.idx) \/ ~InBounds(g.foundations, destination.idx)
              THEN Panicked(g)
              ELSE Moved(g, "PILE", origin.idx + 1, "FOUNDATION", destination.idx + 1,
                         exec_move_cards("PILE", g.piles[origin.idx + 1],
                                         "FOUNDATION", g.foundations[destination.idx + 1],
                                         number, is_undo))
           [] origin.kind = "DECK" ->
              IF ~InBounds(g.foundations, destination.idx)
              THEN Panicked(g)
              ELSE Moved(g, "DECK", 0, "FOUNDATION", destination.idx + 1,
                         exec_move_cards("DECK", g.deck,
                                         "FOUNDATION", g.foundations[destination.idx + 1],
                                         number, is_undo)))
      [] destination.kind = "PILE" ->
        (CASE origin.kind = "FOUNDATION" ->
              IF ~InBounds(g.foundations, origin.idx) \/ ~InBounds(g.piles, destination.idx)
              THEN Panicked(g)
              ELSE Moved(g, "FOUNDATION", origin.idx + 1, "PILE", destination.idx + 1,
                         exec_move_cards("FOUNDATION", g.foundations[origin.idx + 1],
                                         "PILE", g.piles[destination.idx + 1],
                                         number, is_undo))
           [] origin.kind = "PILE" ->
              IF sanitary_check_fails(Len(g.piles), origin.idx, destination.idx)
              THEN Returned(g, FALSE)
              ELSE exec_on_extracted(g, "PILE",
                       extract_two_mutable_elements(g.piles, origin.idx, destination.idx),
                       number, is_undo)
           [] origin.kind = "DECK" ->
              IF ~InBounds(g.piles, destination.idx)
              THEN Panicked(g)
              ELSE Moved(g, "DECK", 0, "PILE", destination.idx + 1,
                         exec_move_cards("DECK", g.deck,
                                         "PILE", g.piles[destination.idx + 1],
                                         number, is_undo)))
      [] destination.kind = "DECK" -> Returned(g, FALSE)

\* mutant: the move is recorded whatever do_move_cards returned
push_if_moved_always(r, origin, destination, number) ==
    IF r.panic THEN r
    ELSE Returned([r.g EXCEPT !.history = Append(@, KlondikeAction_MOVE(origin, destination, number))],
                  r.ret)

\* the history push of move_cards, r being what do_move_cards returned
push_if_moved(r, origin, destination, number) ==
    IF r.panic THEN r
    ELSE IF r.ret
    THEN Returned([r.g EXCEPT !.history = Append(@, KlondikeAction_MOVE(origin, destination, number))],
                  TRUE)
    ELSE Returned(r.g, FALSE)

move_cards(g, origin, destination, number) ==
    push_if_moved(do_move_cards(g, origin, destination, number, FALSE),
                  origin, destination, number)

\* mutant: the Take is recorded only when the Deck had a card to move
take_only_if_cards(g) ==
    IF g.deck.stock = <<>> /\ g.deck.waste = <<>>
    THEN g
    ELSE [g EXCEPT !.deck = Deck_take(@), !.history = Append(@, KlondikeAction_TAKE)]

take(g) == [g EXCEPT !.deck = Deck_take(@), !.history = Append(@, KlondikeAction_TAKE)]

get_status(g) ==
    [deck |-> Deck_get_status(g.deck),
     piles |-> [i \in DOMAIN g.piles |-> Pile_get_status(g.piles[i])],
     foundations |-> [i \in DOMAIN g.foundations |-> Foundation_get_status(g.foundations[i])]]

\* the loop of to_pile from Pile i on; r is what move_cards returned for Pile i
RECURSIVE to_pile_from(_, _, _), to_pile_next(_, _, _)
to_pile_next(r, origin, i) ==
    IF r.panic \/ r.ret THEN r ELSE to_pile_from(r.g, origin, i + 1)

to_pile_from(g, origin, i) ==
    IF i >= Len(g.piles) THEN Returned(g, FALSE)
    ELSE to_pile_next(move_cards(g, origin, PILE(i), 1), origin, i)

\* mutant: the first Pile is not tried
to_pile_skip_first(g, origin) == to_pile_from(g, origin, 1)

to_pile(g, origin) == to_pile_from(g, origin, 0)

\* undo of the popped action; g is the game after history.pop()
undo_action(g, action) ==
    IF action.kind = "MOVE"
    THEN do_move_cards(g, action.origin, action.destination, action.number, TRUE)
    ELSE Returned([g EXCEPT !.deck = Deck_undo_take(@)], TRUE)

\* mutant: the oldest recorded action is undone first
undo_oldest_first(g) ==
    IF g.history = <<>> THEN Returned(g, TRUE)
    ELSE undo_action([g EXCEPT !.history = Tail(@)], g.history[1])

\* mutant: with an empty history the last take of the Deck is undone
undo_untakes_when_empty(g) ==
    IF g.history = <<>> THEN Returned([g EXCEPT !.deck = Deck_undo_take(@)], TRUE)
    ELSE undo_action([g EXCEPT !.history = DropLastN(@, 1)], g.history[Len(g.history)])

undo(g) ==
    IF g.history = <<>> THEN Returned(g, TRUE)
    ELSE undo_action([g EXCEPT !.history = DropLastN(@, 1)], g.history[Len(g.history)])

new_with_mover(cards) ==
    [piles |-> [i \in 1..NumPiles |-> Pile_new],
     foundations |-> [i \in 1..LastCascade |->
                        Foundation_new(SubSeq(cards, ((i * (i - 1)) \div 2) + 1,
                                                     ((i * (i - 1)) \div 2) + i))],
     deck |-> Deck_new(SubSeq(cards, ((LastCascade * (LastCascade + 1)) \div 2) + 1, Len(cards))),
     history |-> <<>>]

(***************************************************************************)
(* The outcomes of the shuffle that the model deals.                        *)
(***************************************************************************)
\* a deal with legal moves of every origin/destination pairing near the start
ArrangedShuffle ==
   << Card("CLUBS", 1), Card("SPADES", 9), Card("HEARTS", 5), Card("CLUBS", 3),
      Card("CLUBS", 6), Card("SPADES", 4), Card("CLUBS", 11), Card("DIAMONDS", 8),
      Card("HEARTS", 2), Card("DIAMONDS", 2), Card("HEARTS", 10), Card("SPADES", 6),
      Card("CLUBS", 4), Card("CLUBS", 12), Card("DIAMONDS", 3), Card("DIAMONDS", 9),
      Card("HEARTS", 3), Card("HEARTS", 11), Card("SPADES", 7), Card("CLUBS", 5),
      Card("HEARTS", 13), Card("CLUBS", 13), Card("DIAMONDS", 10), Card("HEARTS", 4),
      Card("HEARTS", 12), Card("SPADES", 8), Card("CLUBS", 7), Card("SPADES", 12),
      Card("DIAMONDS", 4), Card("DIAMONDS", 11), Card("HEARTS", 6), Card("SPADES", 1),
      Card("SPADES", 10), Card("CLUBS", 8), Card("DIAMONDS", 5), Card("DIAMONDS", 12),
      Card("HEARTS", 7), Card("SPADES", 2), Card("SPADES", 11), Card("CLUBS", 9),
      Card("DIAMONDS", 6), Card("DIAMONDS", 13), Card("HEARTS", 8), Card("SPADES", 3),
      Card("SPADES", 13), Card("CLUBS", 10), Card("DIAMONDS", 7), Card("HEARTS", 1),
      Card("HEARTS", 9), Card("SPADES", 5), Card("DIAMONDS", 1), Card("CLUBS", 2) >>

\* seed 1: the arranged deal; seed 2: the shuffle that leaves the deck as generated
Shuffles == <<ArrangedShuffle, FullDeck>>

(***************************************************************************)
(* Bounds of the exploration                                                *)
(***************************************************************************)
\* move_cards and to_pile are called while the history is shorter than this
MaxHistory == 2

\* take is called while the history is shorter than this (the stock of a new
\* game is exhausted after 23 takes, the 24th flips the waste)
MaxTakes == 25

\* the largest number of cards a caller asks to move
MaxNumber == 2

\* callers pass indices up to this many past the last valid one
MaxOver == 1

CardHolders ==
    {DECK} \cup {PILE(i) : i \in 0..(NumPiles - 1 + MaxOver)}
           \cup {FOUNDATION(i) : i \in 0..(LastCascade - 1 + MaxOver)}

(***************************************************************************)
(* State                                                                    *)
(***************************************************************************)
VARIABLES
    deck,           \* KlondikeMockable.deck
    piles,          \* KlondikeMockable.piles
    foundations,    \* KlondikeMockable.foundations
    history,        \* KlondikeMockable.history
    seed,           \* which shuffle was dealt
    pc,             \* the caller: "idle", "returned" (a call has returned), "panicked"
    call,           \* the call that has just returned, with the game as it was before it
    snapshots,      \* the game as it was before each recorded action (cf. status_history)
    games,          \* KlondikeHashMapRepository.games: the stored game of each id
    times,          \* HashMapTimeoutRepository.times: the last access of each id
    now,            \* Instant::now()
    lock,           \* KlondikeGames.repo: the request that holds the Mutex, if any
    threads,        \* the request handlers: where each is and its local variables
    sweep,          \* the scheduled closure of KlondikeCleanUpRepository::new
    log             \* the repository calls made so far, with what they returned

\* the storage and the web layer
storage == <<games, times, now, lock, threads, sweep, log>>

vars == <<deck, piles, foundations, history, seed, pc, call, snapshots, storage>>

\* no repository: the console game and the tests of the containers have none
NoStorage ==
    /\ games = <<>>
    /\ times = <<>>
    /\ now = 0
    /\ lock = 0
    /\ threads = <<>>
    /\ sweep = <<>>
    /\ log = <<>>

Game == [deck |-> deck, piles |-> piles, foundations |-> foundations, history |-> history]

NoCall ==
    [op |-> "none", origin |-> DECK, destination |-> DECK, number |-> 0,
     ret |-> FALSE, pre |-> <<>>, snap |-> <<>>]

SetGame(g) ==
    /\ deck' = g.deck
    /\ piles' = g.piles
    /\ foundations' = g.foundations
    /\ history' = g.history

Init ==
    /\ seed \in DOMAIN Shuffles
    /\ LET g == new_with_mover(Shuffles[seed])
       IN  /\ deck = g.deck
           /\ piles = g.piles
           /\ foundations = g.foundations
           /\ history = g.history
    /\ pc = "idle"
    /\ call = NoCall
    /\ snapshots = <<>>
    /\ NoStorage

\* the call op(origin, destination, number) ends with outcome r: the game is
\* left as r.g, and a successful action is recorded with the game before it
Respond(op, origin, destination, number, r) ==
    /\ SetGame(r.g)
    /\ pc' = IF r.panic THEN "panicked" ELSE "returned"
    /\ call' = [op |-> op, origin |-> origin, destination |-> destination,
                number |-> number, ret |-> r.ret, pre |-> <<Game>>, snap |-> <<>>]
    /\ snapshots' = IF r.ret THEN Append(snapshots, Game) ELSE snapshots
    /\ UNCHANGED <<seed, storage>>

\* a caller invokes move_cards(origin, destination, number)
MoveCards ==
    /\ pc = "idle"
    /\ Len(history) < MaxHistory
    /\ \E origin \in CardHolders, destination \in CardHolders, number \in 0..MaxNumber :
          Respond("move_cards", origin, destination, number,
                  move_cards(Game, origin, destination, number))

\* a caller invokes take()
Take ==
    /\ pc = "idle"
    /\ Len(history) < MaxTakes
    /\ Respond("take", DECK, DECK, 0, Returned(take(Game), TRUE))

\* a caller invokes to_pile(origin)
ToPile ==
    /\ pc = "idle"
    /\ Len(history) < MaxHistory
    /\ \E origin \in CardHolders :
          Respond("to_pile", origin, DECK, 1, to_pile(Game, origin))

\* undo() ends with outcome r; the snapshot of the undone action is popped
RespondUndo(r) ==
    /\ SetGame(r.g)
    /\ pc' = IF r.panic THEN "panicked" ELSE "returned"
    /\ call' = [NoCall EXCEPT !.op = "undo", !.ret = TRUE, !.pre = <<Game>>,
                              !.snap = LastN(snapshots, IF snapshots = <<>> THEN 0 ELSE 1)]
    /\ snapshots' = DropLastN(snapshots, IF snapshots = <<>> THEN 0 ELSE 1)
    /\ UNCHANGED <<seed, storage>>

\* a caller invokes undo()
Undo ==
    /\ pc = "idle"
    /\ RespondUndo(undo(Game))

\* the caller has looked at the result and is ready for its next call
Return ==
    /\ pc = "returned"
    /\ pc' = "idle"
    /\ call' = NoCall
    /\ UNCHANGED <<deck, piles, foundations, history, seed, snapshots, storage>>

Next == MoveCards \/ Take \/ ToPile \/ Undo \/ Return

Spec == Init /\ [][Next]_vars

(***************************************************************************)
(* The Deck on its own, driven as deck.rs's tests deck_undo_take and        *)
(* deck_undo_take_waste_empty drive it: some takes and peeks bring the Deck  *)
(* to an arbitrary state, then a run of takes, each preceded by a push of    *)
(* get_status(), is followed by undo_takes, each followed by a pop.          *)
(***************************************************************************)
\* the Deck is built from at most this many cards
MaxDeckCards == 3

\* at most this many takes bring the Deck to the state the run starts from
MaxSetup == 3

\* the longest run of takes
MaxRun == 5

DeckInit ==
    /\ seed \in 0..MaxDeckCards
    /\ deck = Deck_new(SubSeq(FullDeck, 1, seed))
    /\ piles = <<>>
    /\ foundations = <<>>
    /\ history = <<>>
    /\ pc = "setup"
    /\ call = NoCall
    /\ snapshots = <<>>
    /\ NoStorage

\* deck.take() before the run
DeckSetupTake ==
    /\ pc = "setup"
    /\ Len(deck.take_caused_flip) <= MaxSetup
    /\ deck' = Deck_take(deck)
    /\ UNCHANGED <<piles, foundations, history, seed, pc, call, snapshots, storage>>

\* deck.peek(1) before the run: the top card of the waste leaves the Deck
DeckSetupPeek ==
    /\ pc = "setup"
    /\ deck.waste # <<>>
    /\ deck' = Deck_peek(deck, 1).c
    /\ UNCHANGED <<piles, foundations, history, seed, pc, call, snapshots, storage>>

\* the run starts: the status it has to come back to is kept in call.pre, and the
\* Deck itself behind it
DeckBegin ==
    /\ pc = "setup"
    /\ pc' = "taking"
    /\ call' = [NoCall EXCEPT !.op = "take", !.pre = <<Deck_get_status(deck), deck>>]
    /\ UNCHANGED <<deck, piles, foundations, history, seed, snapshots, storage>>

\* history.push(deck.get_status()); deck.take();  call.number counts the flips
DeckTake ==
    /\ pc = "taking"
    /\ Len(snapshots) < MaxRun
    /\ deck' = Deck_take(deck)
    /\ snapshots' = Append(snapshots, Deck_get_status(deck))
    /\ call' = [call EXCEPT !.number = IF deck.stock = <<>> /\ deck.waste # <<>>
                                       THEN @ + 1 ELSE @]
    /\ UNCHANGED <<piles, foundations, history, seed, pc, storage>>

\* deck.undo_take(); history.pop(): the popped status is kept in call.snap
DeckUndoTake ==
    /\ pc \in {"taking", "undoing"}
    /\ snapshots # <<>>
    /\ deck' = Deck_undo_take(deck)
    /\ snapshots' = DropLastN(snapshots, 1)
    /\ pc' = "undoing"
    /\ call' = [call EXCEPT !.op = "undo_take", !.snap = LastN(snapshots, 1)]
    /\ UNCHANGED <<piles, foundations, history, seed, storage>>

NextDeck == DeckSetupTake \/ DeckSetupPeek \/ DeckBegin \/ DeckTake \/ DeckUndoTake

SpecDeck == DeckInit /\ [][NextDeck]_vars

(***************************************************************************)
(* The containers and the mover on their own, driven as the unit tests of   *)
(* pile.rs, foundation.rs, deck.rs and card_containers.rs drive them: one    *)
(* origin (the Deck, piles[1] or foundations[1]) and one destination         *)
(* (piles[2] or foundations[2]) are set up, then one operation is applied.   *)
(***************************************************************************)
\* the tallest Pile of the fixtures, apart from the complete one
MaxFixture == 3

\* create_test_pile: the first n cards of a suit, in ascending order
AscendingPile(suit, n) == [cards |-> [i \in 1..n |-> Card(suit, i)]]

PileFixtures ==
    {AscendingPile(s, n) : s \in {"DIAMONDS", "CLUBS"}, n \in 0..MaxFixture}
        \cup {AscendingPile("DIAMONDS", KING)}

\* an empty Foundation is what a Foundation becomes once its last card has left
EmptyFoundation == [hidden |-> <<>>, visible |-> <<>>, peek_caused_flip |-> <<>>]

\* create_test_foundation: hidden cards under a descending run of alternate colours
FoundationVisibles ==
    { <<Card("HEARTS", 13)>>, <<Card("HEARTS", 13), Card("SPADES", 12)>>,
      <<Card("SPADES", 12), Card("DIAMONDS", 11)>>, <<Card("CLUBS", 3)>>,
      <<Card("CLUBS", 3), Card("DIAMONDS", 2)>>, <<Card("SPADES", 5)>> }

FoundationHiddens == { <<>>, <<Card("SPADES", 9)>>, <<Card("SPADES", 9), Card("HEARTS", 8)>> }

BuiltFoundations ==
    {[hidden |-> h, visible |-> v, peek_caused_flip |-> <<>>] :
        h \in FoundationHiddens, v \in FoundationVisibles} \cup {EmptyFoundation}

\* the built ones, and what a peek of one card leaves of them
FoundationFixtures ==
    BuiltFoundations \cup {Foundation_peek(f, 1).c : f \in BuiltFoundations}

DeckCardLists ==
    { <<>>, <<Card("DIAMONDS", 2)>>, <<Card("SPADES", 5), Card("CLUBS", 1)>>,
      <<Card("SPADES", 5), Card("HEARTS", 11), Card("CLUBS", 12)>> }

\* Decks as Deck::new leaves them, and after one more take
DeckFixtures ==
    {Deck_new(cs) : cs \in DeckCardLists} \cup {Deck_take(Deck_new(cs)) : cs \in DeckCardLists}

\* the cards offered to a destination: none, one, or one followed by a second
OfferCards == {Card(s, r) : s \in Range(CardSuit), r \in {1, 2, 4, 5, 11, 12, 13}}

SecondCards == {Card("CLUBS", 10), Card("HEARTS", 13)}

Offers ==
    {<<>>} \cup {<<c>> : c \in OfferCards}
           \cup {<<c, d>> : c \in OfferCards, d \in SecondCards}

UnitInit ==
    /\ call \in {[NoCall EXCEPT !.origin = o, !.destination = d] :
                    o \in {DECK, PILE(0), FOUNDATION(0)}, d \in {PILE(1), FOUNDATION(1)}}
    /\ deck \in IF call.origin = DECK THEN DeckFixtures ELSE {Deck_new(<<>>)}
    /\ piles \in {<<o, d>> :
                    o \in IF call.origin.kind = "PILE" THEN PileFixtures ELSE {Pile_new},
                    d \in IF call.destination.kind = "PILE" THEN PileFixtures ELSE {Pile_new}}
    /\ foundations \in {<<o, d>> :
                    o \in IF call.origin.kind = "FOUNDATION"
                          THEN FoundationFixtures ELSE {EmptyFoundation},
                    d \in IF call.destination.kind = "FOUNDATION"
                          THEN BuiltFoundations ELSE {EmptyFoundation}}
    /\ history = <<>>
    /\ seed = 1
    /\ pc = "idle"
    /\ snapshots = <<>>
    /\ NoStorage

\* the origin and the destination under test
UnitOrigin == Fetch(Game, call.origin.kind, call.origin.idx + 1)

UnitDestination == Fetch(Game, call.destination.kind, call.destination.idx + 1)

\* mover.move_cards(&mut origin, &mut destination, number) has returned r
UnitMoved(r, number) ==
    /\ SetGame(Store(Store(Game, call.origin.kind, call.origin.idx + 1, r.origin),
                     call.destination.kind, call.destination.idx + 1, r.destination))
    /\ pc' = "returned"
    /\ call' = [call EXCEPT !.op = "CardMover_move_cards", !.number = number,
                            !.ret = r.ret, !.pre = <<Game>>, !.snap = r.calls]
    /\ UNCHANGED <<seed, snapshots, storage>>

\* card_mover_check: the mover moves number cards from the origin to the destination
UnitMove ==
    /\ pc = "idle"
    /\ \E number \in 0..MaxNumber :
          UnitMoved(CardMover_move_cards(call.origin.kind, UnitOrigin,
                                         call.destination.kind, UnitDestination, number),
                    number)

\* pile_poke_card_expect_size, foundation_poke_case_ok/ko: try_poke(cards), whose
\* answer is kept in call.ret, then poke(cards)
UnitPoke ==
    /\ pc = "idle"
    /\ \E cards \in Offers :
          /\ SetGame(Store(Game, call.destination.kind, call.destination.idx + 1,
                           CardDestination_poke(call.destination.kind, UnitDestination, cards)))
          /\ call' = [call EXCEPT !.op = "poke", !.pre = <<Game>>, !.snap = cards,
                         !.ret = CardDestination_try_poke(call.destination.kind,
                                                          UnitDestination, cards)]
    /\ pc' = "returned"
    /\ UNCHANGED <<seed, snapshots, storage>>

\* destination.undo_poke(cards.len()) has returned unpoked.cards, which are kept
\* behind the game in call.pre
UnitUnpoked(unpoked) ==
    /\ SetGame(Store(Game, call.destination.kind, call.destination.idx + 1, unpoked.c))
    /\ pc' = "unpoked"
    /\ call' = [call EXCEPT !.op = "undo_poke", !.number = Len(call.snap),
                            !.pre = Append(@, unpoked.cards)]
    /\ UNCHANGED <<seed, snapshots, storage>>

\* pile_undo_poke, foundation_undo_poke_case: poke(&cards), then undo_poke(cards.len())
UnitUndoPoke ==
    /\ pc = "returned"
    /\ call.op = "poke"
    /\ UnitUnpoked(CardDestination_undo_poke(call.destination.kind, UnitDestination,
                                             Len(call.snap)))

\* origin.peek(number) has returned peeked.cards; call.ret tells whether try_peek
\* had offered them
UnitPeeked(peeked, number) ==
    /\ SetGame(Store(Game, call.origin.kind, call.origin.idx + 1, peeked.c))
    /\ pc' = "peeked"
    /\ call' = [call EXCEPT !.op = "peek", !.number = number, !.pre = <<Game>>,
                   !.snap = peeked.cards,
                   !.ret = CardOrigin_try_peek(call.origin.kind, UnitOrigin, number).some]
    /\ UNCHANGED <<seed, snapshots, storage>>

\* pile_undo_peek, deck_undo_peek, foundation_undo_peek_case: let cards = peek(number)
UnitPeek ==
    /\ pc = "idle"
    /\ \E number \in 0..MaxNumber :
          UnitPeeked(CardOrigin_peek(call.origin.kind, UnitOrigin, number), number)

\* ... then undo_peek(&cards)
UnitUndoPeek ==
    /\ pc = "peeked"
    /\ SetGame(Store(Game, call.origin.kind, call.origin.idx + 1,
                     CardOrigin_undo_peek(call.origin.kind, UnitOrigin, call.snap)))
    /\ pc' = "unpeeked"
    /\ call' = [call EXCEPT !.op = "undo_peek"]
    /\ UNCHANGED <<seed, snapshots, storage>>

\* foundation_new, foundation_new_one, foundation_new_no_cards: Foundation::new(cards);
\* the Foundation built takes the place of the destination
UnitFoundationNew ==
    /\ pc = "idle"
    /\ \E cards \in Offers :
          /\ call' = [call EXCEPT !.op = "Foundation_new", !.pre = <<Game>>, !.snap = cards]
          /\ IF Foundation_new_panics(cards)
             THEN /\ pc' = "panicked"
                  /\ UNCHANGED foundations
             ELSE /\ pc' = "returned"
                  /\ foundations' = [foundations EXCEPT ![2] = Foundation_new(cards)]
    /\ UNCHANGED <<deck, piles, history, seed, snapshots, storage>>

NextUnit ==
    UnitMove \/ UnitPoke \/ UnitUndoPoke \/ UnitPeek \/ UnitUndoPeek \/ UnitFoundationNew

SpecUnit == UnitInit /\ [][NextUnit]_vars

(***************************************************************************)
(* A game near its end, built from given containers as the tests of        *)
(* klondike/mod.rs build theirs: every Pile holds its suit up to the Queen,  *)
(* three Kings lie on Foundations, and the last King is either the only card *)
(* of the Deck (seed 1) or on a Foundation too, the Deck being empty         *)
(* (seed 2). The history holds the actions made from there on.               *)
(***************************************************************************)
EndgameKings == <<Card("CLUBS", KING), Card("DIAMONDS", KING), Card("HEARTS", KING)>>

InitEndgame ==
    /\ seed \in DOMAIN Shuffles
    /\ piles = [i \in 1..NumPiles |-> AscendingPile(CardSuit[i], KING - 1)]
    /\ foundations =
          [i \in 1..LastCascade |->
              IF i <= Len(EndgameKings) THEN Foundation_new(<<EndgameKings[i]>>)
              ELSE IF i = Len(EndgameKings) + 1 /\ seed = 2
                   THEN Foundation_new(<<Card("SPADES", KING)>>)
                   ELSE EmptyFoundation]
    /\ deck = IF seed = 1 THEN Deck_new(<<Card("SPADES", KING)>>) ELSE Deck_new(<<>>)
    /\ history = <<>>
    /\ pc = "idle"
    /\ call = NoCall
    /\ snapshots = <<>>
    /\ NoStorage

\* the game is played on as klondike_undo_take plays: to_pile, take and undo
NextEndgame == Take \/ ToPile \/ Undo \/ Return

SpecEndgame == InitEndgame /\ [][NextEndgame]_vars

(***************************************************************************)
(* storage/hashmap_repository.rs, storage/cleanup_wrapper.rs                *)
(*                                                                          *)
(* A HashMap is a function whose domain is the set of its keys.             *)
(***************************************************************************)
EmptyMap == [k \in {} |-> 0]

\* Option<V>
Absent == [some |-> FALSE]

Found(v) == [some |-> TRUE, value |-> v]

\* HashMap::insert
HashMap_insert(m, k, v) == [i \in DOMAIN m \cup {k} |-> IF i = k THEN v ELSE m[i]]

\* HashMap::get(k) with the value cloned
HashMap_get(m, k) == IF k \in DOMAIN m THEN Found(m[k]) ELSE Absent

\* HashMap::remove: the map that is left
HashMap_remove(m, k) == [i \in DOMAIN m \ {k} |-> m[i]]

\* mutant: a game already stored under the id is kept
KlondikeHashMapRepository_update_if_absent(m, id, klondike) ==
    IF id \in DOMAIN m THEN m ELSE HashMap_insert(m, id, klondike)

KlondikeHashMapRepository_update(m, id, klondike) == HashMap_insert(m, id, klondike)

\* uuid is what Uuid::new_v4() has yielded
KlondikeHashMapRepository_save(m, uuid, klondike) ==
    [games |-> KlondikeHashMapRepository_update(m, uuid, klondike), ret |-> uuid]

KlondikeHashMapRepository_get(m, id) == HashMap_get(m, id)

\* mutant: the game is returned and stays stored
KlondikeHashMapRepository_delete_keeps(m, id) ==
    [games |-> m, ret |-> HashMap_get(m, id)]

KlondikeHashMapRepository_delete(m, id) ==
    [games |-> HashMap_remove(m, id), ret |-> HashMap_get(m, id)]

\* HashMapTimeoutRepository; instant is Instant::now()
save_last_access(m, id, instant) == HashMap_insert(m, id, instant)

\* the ids get_expired returns (in the order the HashMap iterates, which is any);
\* elapsed() is the time from the stored instant to now
expired(m, timeout, instant) == {id \in DOMAIN m : instant - m[id] > timeout}

\* mutant: get_expired reports the expired ids and forgets none of them
get_expired_keeps_times(m, timeout, instant) == m

\* the times get_expired leaves
get_expired(m, timeout, instant) ==
    [id \in DOMAIN m \ expired(m, timeout, instant) |-> m[id]]

TimeoutRepository_remove(m, id) == HashMap_remove(m, id)

(***************************************************************************)
(* A KlondikeHashMapRepository on its own, called as the tests               *)
(* save_update_get and delete of klondike_repository.rs call it: one call    *)
(* after the other, each logged with what it returned.                       *)
(***************************************************************************)
\* the ids Uuid::new_v4() yields (the names the tests of the wrapper use)
Ids == {"xxxx", "yyyy"}

\* the games the callers store: new games, and one a card was taken in
Klondikes ==
    {new_with_mover(Shuffles[s]) : s \in DOMAIN Shuffles}
        \cup {take(new_with_mover(Shuffles[1]))}

\* the repository is called at most this many times
MaxCalls == 4

\* no game on the table: the repository is all there is
NoTable ==
    /\ deck = Deck_new(<<>>)
    /\ piles = <<>>
    /\ foundations = <<>>
    /\ history = <<>>
    /\ seed = 1
    /\ pc = "idle"
    /\ call = NoCall
    /\ snapshots = <<>>

table == <<deck, piles, foundations, history, seed, pc, call, snapshots>>

RepoInit ==
    /\ NoTable
    /\ games = EmptyMap
    /\ times = EmptyMap
    /\ now = 0
    /\ lock = 0
    /\ threads = <<>>
    /\ sweep = <<>>
    /\ log = <<>>

Logged(op, id, klondike, ret) == [op |-> op, id |-> id, klondike |-> klondike, ret |-> ret]

\* the ids the save calls of log l have returned
Yielded(l) == {l[i].id : i \in {j \in DOMAIN l : l[j].op = "save"}}

\* repo.save(klondike); Uuid::new_v4() yields an id it has not yielded before
RepoSave ==
    /\ Len(log) < MaxCalls
    /\ \E klondike \in Klondikes, uuid \in Ids \ Yielded(log) :
          /\ games' = KlondikeHashMapRepository_save(games, uuid, klondike).games
          /\ log' = Append(log, Logged("save", uuid, Found(klondike), Absent))
    /\ UNCHANGED <<table, times, now, lock, threads, sweep>>

\* repo.update(id, klondike)
RepoUpdate ==
    /\ Len(log) < MaxCalls
    /\ \E klondike \in Klondikes, id \in Ids :
          /\ games' = KlondikeHashMapRepository_update(games, id, klondike)
          /\ log' = Append(log, Logged("update", id, Found(klondike), Absent))
    /\ UNCHANGED <<table, times, now, lock, threads, sweep>>

\* repo.get(&id)
RepoGet ==
    /\ Len(log) < MaxCalls
    /\ \E id \in Ids :
          log' = Append(log, Logged("get", id, Absent, KlondikeHashMapRepository_get(games, id)))
    /\ UNCHANGED <<table, games, times, now, lock, threads, sweep>>

\* repo.delete(&id)
RepoDelete ==
    /\ Len(log) < MaxCalls
    /\ \E id \in Ids :
          /\ games' = KlondikeHashMapRepository_delete(games, id).games
          /\ log' = Append(log, Logged("delete", id, Absent,
                                       KlondikeHashMapRepository_delete(games, id).ret))
    /\ UNCHANGED <<table, times, now, lock, threads, sweep>>

NextRepo == RepoSave \/ RepoUpdate \/ RepoGet \/ RepoDelete

SpecRepo == RepoInit /\ [][NextRepo]_vars

(***************************************************************************)
(* ui/web/mod.rs over a KlondikeCleanUpRepository that wraps a               *)
(* KlondikeHashMapRepository, as main_rocket builds them. The request        *)
(* handlers run in parallel; each holds the Mutex of KlondikeGames.repo from *)
(* its first line to its return. The scheduled closure runs in a thread of   *)
(* its own and takes only the two Mutexes inside the wrapper, each for one   *)
(* call: a step of the model is one call made under such an inner Mutex.     *)
(* In this specification log holds the save calls only.                      *)
(***************************************************************************)
\* the request handlers that can run at the same time
Requests == {1, 2}

\* the timeout given to KlondikeCleanUpRepository::new, in ticks of the clock
Timeout == 1

\* the clock stops here
MaxNow == 2

\* take is requested for a game whose history is shorter than this
MaxActions == 1

Idle == [pc |-> "idle", op |-> "none", id |-> "", x |-> Absent]

WebInit ==
    /\ NoTable
    /\ games = EmptyMap
    /\ times = EmptyMap
    /\ now = 0
    /\ lock = 0
    /\ threads = [r \in Requests |-> Idle]
    /\ sweep = [pc |-> "waiting", to_remove |-> {}, last |-> Absent]
    /\ log = <<>>

\* the closure passed to execute by get_status and by execute_action
Task(op, x) ==
    CASE op = "take" -> take(x)
      [] op = "undo" -> undo(x).g
      [] op = "get_status" -> x

\* the MutexGuard of the handler is dropped at its return
Respond_and_unlock(r) ==
    /\ lock' = 0
    /\ threads' = [threads EXCEPT ![r] = Idle]

\* a request arrives and its handler passes shared.repo.lock()
Lock ==
    \E r \in Requests, op \in {"new_game", "get_status", "take", "undo", "delete", "options"},
       id \in Ids :
        /\ threads[r].pc = "idle"
        /\ lock = 0
        /\ op = "new_game" => Ids \ Yielded(log) # {}
        /\ (op = "take" /\ id \in DOMAIN games) => Len(games[id].history) < MaxActions
        /\ lock' = r
        /\ threads' = [threads EXCEPT ![r] =
              [pc |-> CASE op = "new_game" -> "save"
                        [] op = "delete" -> "delete"
                        [] OTHER -> "get",
               op |-> op, id |-> IF op = "new_game" THEN "" ELSE id, x |-> Absent]]
        /\ UNCHANGED <<table, games, times, now, sweep, log>>

\* new_game: state.save(Klondike::new()), first half: delegate.save
Save ==
    \E r \in Requests, uuid \in Ids \ Yielded(log) :
        /\ threads[r].pc = "save"
        /\ games' = KlondikeHashMapRepository_save(games, uuid,
                                                   new_with_mover(Shuffles[1])).games
        /\ log' = Append(log, Logged("save", uuid, Absent, Absent))
        /\ threads' = [threads EXCEPT ![r].pc = "save_access", ![r].id = uuid]
        /\ UNCHANGED <<table, times, now, lock, sweep>>

\* ... second half: repo.save_last_access(&result), and new_game returns
SaveAccess ==
    \E r \in Requests :
        /\ threads[r].pc = "save_access"
        /\ times' = save_last_access(times, threads[r].id, now)
        /\ Respond_and_unlock(r)
        /\ UNCHANGED <<table, games, now, sweep, log>>

\* execute, options: repo.get(&id), first half: delegate.get; on None the handler
\* answers NotFound
Get ==
    \E r \in Requests :
        /\ threads[r].pc = "get"
        /\ IF KlondikeHashMapRepository_get(games, threads[r].id).some
           THEN /\ threads' = [threads EXCEPT ![r].pc = "get_access",
                                  ![r].x = KlondikeHashMapRepository_get(games, threads[r].id)]
                /\ UNCHANGED lock
           ELSE Respond_and_unlock(r)
        /\ UNCHANGED <<table, games, times, now, sweep, log>>

\* ... second half: save_last_access(id); options returns, execute goes on
GetAccess ==
    \E r \in Requests :
        /\ threads[r].pc = "get_access"
        /\ times' = save_last_access(times, threads[r].id, now)
        /\ IF threads[r].op = "options"
           THEN Respond_and_unlock(r)
           ELSE /\ threads' = [threads EXCEPT ![r].pc = "update"]
                /\ UNCHANGED lock
        /\ UNCHANGED <<table, games, now, sweep, log>>

\* execute: task(x); repo.update(id, x.clone()), first half: delegate.update
Update ==
    \E r \in Requests :
        /\ threads[r].pc = "update"
        /\ games' = KlondikeHashMapRepository_update(games, threads[r].id,
                                                     Task(threads[r].op, threads[r].x.value))
        /\ threads' = [threads EXCEPT ![r].pc = "update_access"]
        /\ UNCHANGED <<table, times, now, lock, sweep, log>>

\* ... second half: save_last_access(&id), and execute returns
UpdateAccess ==
    \E r \in Requests :
        /\ threads[r].pc = "update_access"
        /\ times' = save_last_access(times, threads[r].id, now)
        /\ Respond_and_unlock(r)
        /\ UNCHANGED <<table, games, now, sweep, log>>

\* delete: repo.delete(&id), first half: delegate.delete
Delete ==
    \E r \in Requests :
        /\ threads[r].pc = "delete"
        /\ games' = KlondikeHashMapRepository_delete(games, threads[r].id).games
        /\ threads' = [threads EXCEPT ![r].pc = "remove"]
        /\ UNCHANGED <<table, times, now, lock, sweep, log>>

\* ... second half: repo.remove(id), and delete returns
Remove ==
    \E r \in Requests :
        /\ threads[r].pc = "remove"
        /\ times' = TimeoutRepository_remove(times, threads[r].id)
        /\ Respond_and_unlock(r)
        /\ UNCHANGED <<table, games, now, sweep, log>>

\* the scheduled closure starts: to_remove = sch_repo.lock().unwrap().get_expired(&timeout)
SweepExpire ==
    /\ sweep.pc = "waiting"
    /\ times' = get_expired(times, Timeout, now)
    /\ sweep' = [sweep EXCEPT !.to_remove = expired(times, Timeout, now),
                              !.pc = IF expired(times, Timeout, now) = {}
                                     THEN "waiting" ELSE "removing"]
    /\ UNCHANGED <<table, games, now, lock, threads, log>>

\* for id in to_remove: sch_delegate.lock().unwrap().delete(&id);  sweep.last keeps
\* what was deleted, when, and the last access the wrapper had on record for it
SweepDelete ==
    /\ sweep.pc = "removing"
    /\ \E id \in sweep.to_remove :
          /\ games' = KlondikeHashMapRepository_delete(games, id).games
          /\ sweep' = [pc |-> IF sweep.to_remove = {id} THEN "waiting" ELSE "removing",
                       to_remove |-> sweep.to_remove \ {id},
                       last |-> Found([id |-> id,
                                       game |-> KlondikeHashMapRepository_delete(games, id).ret,
                                       access |-> HashMap_get(times, id),
                                       at |-> now])]
    /\ UNCHANGED <<table, times, now, lock, threads, log>>

\* time passes
Tick ==
    /\ now < MaxNow
    /\ now' = now + 1
    /\ UNCHANGED <<table, games, times, lock, threads, sweep, log>>

NextWeb ==
    \/ Lock \/ Save \/ SaveAccess \/ Get \/ GetAccess \/ Update \/ UpdateAccess
    \/ Delete \/ Remove \/ SweepExpire \/ SweepDelete \/ Tick

SpecWeb == WebInit /\ [][NextWeb]_vars

(***************************************************************************)
(* The wrapper under its sweep, for what the sweep does in the end. The      *)
(* handlers exclude each other and the sweep never reads a game, so one      *)
(* handler serving new_game, get_status and delete makes every call the      *)
(* wrapper has (save, get, update, delete) race with the sweep.              *)
(***************************************************************************)
\* a request for new_game, get_status or delete arrives at the handler
LockSweep ==
    \E op \in {"new_game", "get_status", "delete"}, id \in Ids :
        /\ threads[1].pc = "idle"
        /\ lock = 0
        /\ op = "new_game" => Ids \ Yielded(log) # {}
        /\ lock' = 1
        /\ threads' = [threads EXCEPT ![1] =
              [pc |-> CASE op = "new_game" -> "save"
                        [] op = "delete" -> "delete"
                        [] OTHER -> "get",
               op |-> op, id |-> IF op = "new_game" THEN "" ELSE id, x |-> Absent]]
        /\ UNCHANGED <<table, games, times, now, sweep, log>>

NextSweep ==
    \/ LockSweep \/ Save \/ SaveAccess \/ Get \/ GetAccess \/ Update \/ UpdateAccess
    \/ Delete \/ Remove \/ SweepExpire \/ SweepDelete \/ Tick

\* scheduler.every(10.seconds()).run(closure) under watch_thread: the closure is run
\* again and again for as long as the wrapper lives, and each run goes through its
\* loop to the end
SpecSweep ==
    WebInit /\ [][NextSweep]_vars /\ WF_vars(SweepExpire) /\ WF_vars(SweepDelete)

(***************************************************************************)
(* Properties                                                               *)
(***************************************************************************)
\* the game as it was before the call that has just returned
Pre == call.pre[1]

\* the action that the undo() that has just returned popped from the history
Undone == Pre.history[Len(Pre.history)]

\* the logical reference names an existing container
ValidHolder(h) ==
    CASE h.kind = "DECK" -> TRUE
      [] h.kind = "PILE" -> h.idx < NumPiles
      [] h.kind = "FOUNDATION" -> h.idx < LastCascade

\* the container a valid reference names, in game g
Container(g, h) == Fetch(g, h.kind, h.idx + 1)

\* every card of game g, container after container
RECURSIVE Flatten(_)
Flatten(ss) == IF ss = <<>> THEN <<>> ELSE Head(ss) \o Flatten(Tail(ss))

AllCards(g) ==
    g.deck.stock \o g.deck.waste
    \o Flatten([i \in DOMAIN g.piles |-> g.piles[i].cards])
    \o Flatten([i \in DOMAIN g.foundations |-> g.foundations[i].hidden \o g.foundations[i].visible])

\* C1: after an undo() that reverses a successful move_cards(from, to, n), get_status()
\* equals the get_status() of the state in which that move was made.
C1_UndoOfMoveRestoresStatus ==
    (pc = "returned" /\ call.op = "undo" /\ Pre.history # <<>> /\ Undone.kind = "MOVE")
        => get_status(Game) = get_status(call.snap[1])

\* an undo() has reversed a two-card Foundation to Foundation move that had turned
\* a hidden card of its origin
C1_Witness ==
    /\ pc = "returned" /\ call.op = "undo" /\ Pre.history # <<>>
    /\ Undone.kind = "MOVE" /\ Undone.number = 2
    /\ Undone.origin.kind = "FOUNDATION" /\ Undone.destination.kind = "FOUNDATION"
    /\ LET flags == Container(Pre, Undone.origin).peek_caused_flip
       IN  flags # <<>> /\ flags[Len(flags)]

\* C2: in every reachable state each of the 52 cards is in exactly one place among
\* stock, waste, the Piles and the hidden and visible parts of the Foundations.
C2_EveryCardInExactlyOnePlace ==
    /\ Len(AllCards(Game)) = DeckSize
    /\ Range(AllCards(Game)) = Range(FullDeck)

\* an undo() has reversed a take that followed a Deck to Pile move
C2_Witness ==
    /\ pc = "returned" /\ call.op = "undo" /\ Pre.history # <<>>
    /\ Undone.kind = "TAKE"
    /\ history # <<>> /\ history[Len(history)].kind = "MOVE"
    /\ history[Len(history)].origin = DECK
    /\ \E i \in DOMAIN piles : piles[i].cards # <<>>

\* C3: a move_cards that returns false leaves every container and the history as they
\* were; one that returns true appends exactly its own Move entry.
C3_FailedMoveChangesNothing ==
    (pc = "returned" /\ call.op = "move_cards")
        => IF call.ret
           THEN history = Append(Pre.history,
                                 KlondikeAction_MOVE(call.origin, call.destination, call.number))
           ELSE Game = Pre

\* a move was refused by its destination although the origin offered a card
C3_Witness ==
    /\ pc = "returned" /\ call.op = "move_cards" /\ ~call.ret
    /\ ValidHolder(call.origin) /\ ValidHolder(call.destination)
    /\ call.destination.kind = "FOUNDATION"
    /\ CardOrigin_try_peek(call.origin.kind, Container(Pre, call.origin), call.number).some

\* C4: move_cards with a Pile or Foundation index out of range returns false, does
\* not crash, and leaves the containers and the history unchanged.
C4_OutOfRangeIndexReturnsFalse ==
    (pc # "idle" /\ call.op = "move_cards"
       /\ (~ValidHolder(call.origin) \/ ~ValidHolder(call.destination)))
        => (pc = "returned" /\ ~call.ret /\ Game = Pre)

\* C5: each undo() that pops a history entry restores the get_status() that held just
\* before the action it reverses, and once every entry is undone get_status() is the
\* one right after the deal.
C5_UndoStepsBackToTheDeal ==
    (pc = "returned" /\ call.op = "undo" /\ Pre.history # <<>>)
        => /\ get_status(Game) = get_status(call.snap[1])
           /\ history = <<>> => get_status(Game) = get_status(new_with_mover(Shuffles[seed]))

\* the undo() of the first recorded action, a to_pile or move into a Pile, has
\* brought the game back to the deal
C5_Witness ==
    /\ pc = "returned" /\ call.op = "undo" /\ Pre.history # <<>>
    /\ history = <<>>
    /\ Undone.kind = "MOVE" /\ Undone.destination.kind = "PILE"

\* C6: once a run of k take() calls has been followed by k undo_take() calls, the
\* Deck's status (cards on stock, cards on waste, top waste card) is the one it had
\* before the run, flips included; and each single undo_take() gives back the status
\* that held before the take it reverses.
C6_TakesThenUndosRestoreStatus ==
    /\ (pc \in {"taking", "undoing"} /\ snapshots = <<>>)
          => Deck_get_status(deck) = call.pre[1]
    /\ pc = "undoing" => Deck_get_status(deck) = call.snap[1]

\* a run that flipped the waste twice has been undone completely
C6_Witness ==
    /\ pc = "undoing"
    /\ snapshots = <<>>
    /\ call.number >= 2
    /\ seed >= 2
    /\ Deck_get_status(deck) = call.pre[1]

\* C7: undo() of a successful move or of a take restores the whole game as it was
\* before that action: stock and waste, hidden and visible of every Foundation,
\* every Pile, the flag stacks and the history.
C7_UndoRestoresExactState ==
    (pc = "returned" /\ call.op = "undo" /\ Pre.history # <<>>)
        => Game = call.snap[1]

\* an undo() has reversed a take that had flipped the waste onto the stock
C7_Witness ==
    /\ pc = "returned" /\ call.op = "undo" /\ Pre.history # <<>>
    /\ Undone.kind = "TAKE"
    /\ Pre.deck.take_caused_flip[Len(Pre.deck.take_caused_flip)]
    /\ Len(deck.waste) > 1

\* C8: move_cards(Pile(i), Pile(i), n) and move_cards(Foundation(j), Foundation(j), n)
\* with valid i, j return false and change neither containers nor history.
C8_SelfMoveRejected ==
    (pc # "idle" /\ call.op = "move_cards" /\ call.origin = call.destination
       /\ call.origin.kind \in {"PILE", "FOUNDATION"} /\ ValidHolder(call.origin))
        => (pc = "returned" /\ ~call.ret /\ Game = Pre)

\* a Foundation holding a visible card was asked to move one card onto itself
C8_Witness ==
    /\ pc = "returned" /\ call.op = "move_cards" /\ call.origin = call.destination
    /\ call.origin.kind = "FOUNDATION" /\ ValidHolder(call.origin)
    /\ call.number = 1
    /\ Container(Pre, call.origin).visible # <<>>

\* C9: move_cards(from, DECK, n) returns false for every origin and every n and
\* leaves the game and its history unchanged.
C9_DeckIsNeverADestination ==
    (pc # "idle" /\ call.op = "move_cards" /\ call.destination = DECK)
        => (pc = "returned" /\ ~call.ret /\ Game = Pre)

\* a Foundation that could yield its top card was asked to move it to the Deck
C9_Witness ==
    /\ pc = "returned" /\ call.op = "move_cards" /\ call.destination = DECK
    /\ call.origin.kind = "FOUNDATION" /\ ValidHolder(call.origin)
    /\ call.number = 1
    /\ Container(Pre, call.origin).visible # <<>>

\* the origin can yield number cards and the destination's rule accepts them
Legal(g, origin, destination, number) ==
    /\ CardOrigin_try_peek(origin.kind, Container(g, origin), number).some
    /\ CardDestination_try_poke(destination.kind, Container(g, destination),
           CardOrigin_try_peek(origin.kind, Container(g, origin), number).cards)

\* the top waste card extends Pile p: an Ace on an empty Pile, else the next rank of
\* the suit of the Pile's top card
WasteTopExtends(d, p) ==
    /\ d.waste # <<>>
    /\ IF p.cards = <<>>
       THEN d.waste[Len(d.waste)].rank = ACE
       ELSE /\ d.waste[Len(d.waste)].suit = p.cards[Len(p.cards)].suit
            /\ d.waste[Len(d.waste)].rank = p.cards[Len(p.cards)].rank + 1

\* C10: for valid, distinct references and a non-Deck destination, move_cards returns
\* true iff the origin can yield n cards and the destination accepts them; and
\* move_cards(DECK, Pile(k), 1) returns true iff the top waste card extends Pile(k).
C10_LegalMovesAreExactlyTheAcceptedOnes ==
    (pc # "idle" /\ call.op = "move_cards"
       /\ ValidHolder(call.origin) /\ ValidHolder(call.destination)
       /\ call.origin # call.destination /\ call.destination # DECK)
        => /\ pc = "returned"
           /\ call.ret <=> Legal(Pre, call.origin, call.destination, call.number)
           /\ (call.origin = DECK /\ call.destination.kind = "PILE" /\ call.number = 1)
                 => (call.ret <=> WasteTopExtends(Pre.deck, Container(Pre, call.destination)))

\* the top waste card was moved onto a Pile that already held a card
C10_Witness ==
    /\ pc = "returned" /\ call.op = "move_cards" /\ call.ret
    /\ call.origin = DECK /\ call.destination.kind = "PILE"
    /\ Container(Pre, call.destination).cards # <<>>

\* how many times method m occurs in the sequence of invoked methods
Invocations(calls, m) == Cardinality({i \in DOMAIN calls : calls[i] = m})

\* the origin and the destination as they were before the operation under test
PreOrigin == Fetch(Pre, call.origin.kind, call.origin.idx + 1)

PreDestination == Fetch(Pre, call.destination.kind, call.destination.idx + 1)

\* C11: CardMover.move_cards returns true exactly when origin.try_peek(n) yields cards
\* and destination.try_poke accepts them; then peek and poke are each invoked once,
\* poke receiving what peek returned; otherwise neither is invoked and neither
\* container changes.
C11_MoveIsTwoPhase ==
    (pc = "returned" /\ call.op = "CardMover_move_cards")
        => /\ call.ret <=>
                 /\ CardOrigin_try_peek(call.origin.kind, PreOrigin, call.number).some
                 /\ CardDestination_try_poke(call.destination.kind, PreDestination,
                        CardOrigin_try_peek(call.origin.kind, PreOrigin, call.number).cards)
           /\ IF call.ret
              THEN /\ Invocations(call.snap, "peek") = 1
                   /\ Invocations(call.snap, "poke") = 1
                   /\ UnitOrigin = CardOrigin_peek(call.origin.kind, PreOrigin, call.number).c
                   /\ UnitDestination =
                         CardDestination_poke(call.destination.kind, PreDestination,
                             CardOrigin_peek(call.origin.kind, PreOrigin, call.number).cards)
              ELSE /\ Invocations(call.snap, "peek") = 0
                   /\ Invocations(call.snap, "poke") = 0
                   /\ Game = Pre

\* the mover has moved the two visible cards of a Foundation, turning a hidden one
C11_Witness ==
    /\ pc = "returned" /\ call.op = "CardMover_move_cards" /\ call.ret
    /\ call.origin.kind = "FOUNDATION" /\ call.number = 2
    /\ PreOrigin.hidden # <<>>
    /\ Invocations(call.snap, "peek") = 1
    /\ Len(UnitDestination.visible) = Len(PreDestination.visible) + 2

\* C12: in every reachable game state no Foundation has an empty visible sequence
\* while its hidden sequence is non-empty.
C12_VisibleEmptyOnlyIfHiddenEmpty ==
    \A i \in DOMAIN foundations :
        foundations[i].visible = <<>> => foundations[i].hidden = <<>>

\* a move has taken every visible card of a Foundation that had hidden cards
C12_Witness ==
    /\ pc = "returned" /\ call.op = "move_cards" /\ call.ret
    /\ call.origin.kind = "FOUNDATION"
    /\ Container(Pre, call.origin).hidden # <<>>
    /\ Len(Container(Pre, call.origin).visible) = call.number
    /\ Len(Container(Game, call.origin).visible) = 1

\* the rule of a Pile: exactly one card, an Ace on an empty Pile, else the card of
\* the top card's suit that is one rank higher
PileAccepts(p, cards) ==
    /\ Len(cards) = 1
    /\ IF p.cards = <<>>
       THEN cards[1].rank = ACE
       ELSE /\ cards[1].suit = p.cards[Len(p.cards)].suit
            /\ cards[1].rank = p.cards[Len(p.cards)].rank + 1

\* C13: Pile.try_poke(cards) is true iff the offer satisfies the rule of a Pile, and
\* poke appends the card iff try_poke holds and otherwise leaves the Pile unchanged.
C13_PileAcceptsNextOfSuit ==
    (pc = "returned" /\ call.op = "poke" /\ call.destination.kind = "PILE")
        => /\ call.ret <=> PileAccepts(PreDestination, call.snap)
           /\ UnitDestination =
                 IF call.ret
                 THEN [cards |-> Append(PreDestination.cards, call.snap[1])]
                 ELSE PreDestination
           /\ UnitOrigin = PreOrigin

\* a non-empty Pile has taken the next card of its suit
C13_Witness ==
    /\ pc = "returned" /\ call.op = "poke" /\ call.destination.kind = "PILE"
    /\ call.ret
    /\ PreDestination.cards # <<>>
    /\ Len(UnitDestination.cards) = Len(PreDestination.cards) + 1

\* red = Diamonds/Hearts, black = Clubs/Spades
IsRed(card) == card.suit \in {"DIAMONDS", "HEARTS"}

\* the rule of a Foundation, on the first offered card only: a King on an empty
\* visible sequence, else one rank below the top visible card and of the other colour
FoundationAccepts(f, cards) ==
    /\ cards # <<>>
    /\ IF f.visible = <<>>
       THEN cards[1].rank = KING
       ELSE /\ cards[1].rank + 1 = f.visible[Len(f.visible)].rank
            /\ IsRed(cards[1]) # IsRed(f.visible[Len(f.visible)])

\* C14: Foundation.try_poke(cards) is true iff the offer satisfies the rule of a
\* Foundation, which looks at the first offered card only, and poke appends all the
\* offered cards iff try_poke holds and otherwise leaves the Foundation unchanged.
C14_FoundationAcceptsDescendingAlternate ==
    (pc = "returned" /\ call.op = "poke" /\ call.destination.kind = "FOUNDATION")
        => /\ call.ret <=> FoundationAccepts(PreDestination, call.snap)
           /\ UnitDestination =
                 IF call.ret
                 THEN [PreDestination EXCEPT !.visible = @ \o call.snap]
                 ELSE PreDestination
           /\ UnitOrigin = PreOrigin

\* a Foundation has taken two offered cards of which the second does not follow
\* the first
C14_Witness ==
    /\ pc = "returned" /\ call.op = "poke" /\ call.destination.kind = "FOUNDATION"
    /\ call.ret
    /\ PreDestination.visible # <<>>
    /\ Len(call.snap) = 2
    /\ ~check_alternate_colors_and_descending_rank(call.snap[1], call.snap[2])
    /\ Len(UnitDestination.visible) = Len(PreDestination.visible) + 2

DeckIsEmpty(d) == d.stock = <<>> /\ d.waste = <<>>

\* C15: every take() appends exactly one Take entry to the history; when stock and
\* waste are both empty the Deck's cards stay as they are, and the undo() of that
\* entry leaves the Deck's cards as they are too.
C15_TakeIsAlwaysRecorded ==
    /\ (pc = "returned" /\ call.op = "take")
          => /\ history = Append(Pre.history, KlondikeAction_TAKE)
             /\ DeckIsEmpty(Pre.deck) => DeckIsEmpty(deck)
    /\ (pc = "returned" /\ call.op = "undo" /\ Pre.history # <<>>
          /\ Undone.kind = "TAKE" /\ DeckIsEmpty(call.snap[1].deck))
          => /\ deck.stock = Pre.deck.stock
             /\ deck.waste = Pre.deck.waste
             /\ history = DropLastN(Pre.history, 1)

\* a take made while the Deck held no card has been undone
C15_Witness ==
    /\ pc = "returned" /\ call.op = "undo" /\ Pre.history # <<>>
    /\ Undone.kind = "TAKE"
    /\ DeckIsEmpty(call.snap[1].deck)
    /\ DeckIsEmpty(Pre.deck)
    /\ DeckIsEmpty(deck)
    /\ Len(Pre.deck.take_caused_flip) = Len(deck.take_caused_flip) + 1

\* C16: undo() called when the history is empty changes nothing: containers, flag
\* stacks and the empty history stay exactly as they were.
C16_UndoOnEmptyHistoryIsNoOp ==
    (pc # "idle" /\ call.op = "undo" /\ Pre.history = <<>>)
        => (pc = "returned" /\ Game = Pre)

\* undo() has returned on an empty history while the Deck still held the flag of
\* the take that Deck::new makes
C16_Witness ==
    /\ pc = "returned" /\ call.op = "undo" /\ Pre.history = <<>>
    /\ history = <<>>
    /\ Pre.deck.take_caused_flip # <<>>
    /\ deck.waste # <<>>

\* the Piles (0-based) that accept the top card of the origin of the to_pile call
AcceptingPiles ==
    {k \in 0..(NumPiles - 1) :
        /\ CardOrigin_try_peek(call.origin.kind, Container(Pre, call.origin), 1).some
        /\ PileAccepts(Pre.piles[k + 1],
               CardOrigin_try_peek(call.origin.kind, Container(Pre, call.origin), 1).cards)}

LowestAcceptingPile == CHOOSE k \in AcceptingPiles : \A j \in AcceptingPiles : k <= j

\* every container but the origin and Pile k is as it was before the call
OthersUnchanged(k) ==
    /\ call.origin # DECK => deck = Pre.deck
    /\ \A i \in DOMAIN piles :
          (PILE(i - 1) # call.origin /\ i - 1 # k) => piles[i] = Pre.piles[i]
    /\ \A i \in DOMAIN foundations :
          FOUNDATION(i - 1) # call.origin => foundations[i] = Pre.foundations[i]

\* C17: to_pile(from) returns true iff some Pile accepts the origin's top card; then
\* exactly that card moves to the lowest-indexed accepting Pile and exactly one
\* history entry is appended; otherwise containers and history are unchanged.
C17_ToPileUsesLowestAcceptingPile ==
    (pc # "idle" /\ call.op = "to_pile" /\ ValidHolder(call.origin))
        => /\ pc = "returned"
           /\ call.ret <=> AcceptingPiles # {}
           /\ IF call.ret
              THEN /\ history = Append(Pre.history,
                                   KlondikeAction_MOVE(call.origin, PILE(LowestAcceptingPile), 1))
                   /\ piles[LowestAcceptingPile + 1].cards =
                         Pre.piles[LowestAcceptingPile + 1].cards
                            \o CardOrigin_try_peek(call.origin.kind,
                                                   Container(Pre, call.origin), 1).cards
                   /\ Container(Game, call.origin) =
                         CardOrigin_peek(call.origin.kind, Container(Pre, call.origin), 1).c
                   /\ OthersUnchanged(LowestAcceptingPile)
              ELSE Game = Pre

\* to_pile has put the top card of the waste on a Pile other than the first, the
\* first Pile not accepting it
C17_Witness ==
    /\ pc = "returned" /\ call.op = "to_pile" /\ call.ret
    /\ call.origin = DECK
    /\ AcceptingPiles # {}
    /\ LowestAcceptingPile > 0
    /\ Len(piles[LowestAcceptingPile + 1].cards)
          = Len(Pre.piles[LowestAcceptingPile + 1].cards) + 1

\* the layout of a game g dealt from cards: 4 empty Piles, Foundation j with j hidden
\* cards and the last card dealt to it visible, the other 24 cards in the Deck with
\* 23 on stock and 1 on waste, and no history
NewGameLayout(g, cards) ==
    /\ Len(g.piles) = 4
    /\ \A i \in DOMAIN g.piles : g.piles[i].cards = <<>>
    /\ Len(g.foundations) = 7
    /\ \A j \in 0..6 :
          /\ Len(g.foundations[j + 1].hidden) = j
          /\ g.foundations[j + 1].visible = <<cards[((j * (j + 1)) \div 2) + j + 1]>>
          /\ g.foundations[j + 1].hidden
                = SubSeq(cards, ((j * (j + 1)) \div 2) + 1, ((j * (j + 1)) \div 2) + j)
    /\ Len(g.deck.stock) = 23
    /\ Len(g.deck.waste) = 1
    /\ Range(g.deck.stock \o g.deck.waste) = Range(SubSeq(cards, 29, 52))
    /\ g.history = <<>>

\* C18: a new game has 4 empty Piles, 7 Foundations of which Foundation(j) holds j
\* hidden cards and 1 visible card, the last dealt to it, a Deck of the remaining 24
\* cards with 23 on stock and 1 on waste, and an empty history.
C18_NewGameLayout ==
    /\ NewGameLayout(new_with_mover(Shuffles[seed]), Shuffles[seed])
    /\ (pc = "idle" /\ history = <<>> /\ snapshots = <<>>)
          => Game = new_with_mover(Shuffles[seed])

\* the game dealt from the arranged shuffle, before any call
C18_Witness ==
    /\ pc = "idle" /\ call = NoCall /\ history = <<>> /\ snapshots = <<>>
    /\ seed = 1
    /\ NewGameLayout(Game, ArrangedShuffle)
    /\ foundations[7].visible = <<Card("SPADES", 12)>>

\* C19: constructing a Foundation from zero cards fails fast and yields no
\* Foundation; from one card or more it succeeds, all cards hidden but the last.
C19_FoundationNeedsACard ==
    (pc # "idle" /\ call.op = "Foundation_new")
        => IF call.snap = <<>>
           THEN pc = "panicked" /\ Game = Pre
           ELSE /\ pc = "returned"
                /\ foundations[2].hidden \o foundations[2].visible = call.snap
                /\ Len(foundations[2].visible) = 1
                /\ foundations[2].peek_caused_flip = <<>>

\* Foundation::new(vec![]) has panicked
C19_Witness ==
    /\ pc = "panicked" /\ call.op = "Foundation_new"
    /\ call.snap = <<>>
    /\ foundations = Pre.foundations

\* C20: for the Deck's waste, a Pile and a Foundation alike, when peek(n) succeeds,
\* undo_peek of the cards it returned, applied at once, restores the container
\* exactly, the card a Foundation had turned being hidden again.
C20_UndoPeekIsLeftInverse ==
    (pc = "unpeeked" /\ call.ret)
        => /\ Len(call.snap) = call.number
           /\ UnitOrigin = PreOrigin
           /\ Game = Pre

\* the peek of every visible card of a Foundation, which turned a hidden card, has
\* been undone
C20_Witness ==
    /\ pc = "unpeeked" /\ call.ret
    /\ call.origin.kind = "FOUNDATION"
    /\ PreOrigin.hidden # <<>>
    /\ Len(PreOrigin.visible) = call.number
    /\ PreOrigin.peek_caused_flip # <<>>
    /\ UnitOrigin = PreOrigin

\* C21: for a Pile and for a Foundation, whenever try_poke(cards) holds, poke(cards)
\* followed at once by undo_poke(len(cards)) returns exactly cards, in the same
\* order, and leaves the container as it was before the poke.
C21_UndoPokeReturnsThePokedCards ==
    (pc = "unpoked" /\ call.ret)
        => /\ call.pre[2] = call.snap
           /\ UnitDestination = PreDestination
           /\ Game = Pre

\* two cards accepted by a Foundation that has hidden cards have been taken back
C21_Witness ==
    /\ pc = "unpoked" /\ call.ret
    /\ call.destination.kind = "FOUNDATION"
    /\ Len(call.snap) = 2
    /\ call.pre[2] = call.snap
    /\ PreDestination.hidden # <<>>
    /\ PreDestination.visible # <<>>
    /\ UnitDestination = PreDestination

\* the cards of container c a peek takes from, bottom to top: the waste of a Deck,
\* the cards of a Pile, the hidden cards under the visible ones of a Foundation
Held(kind, c) ==
    CASE kind = "DECK" -> c.waste
      [] kind = "PILE" -> c.cards
      [] kind = "FOUNDATION" -> c.hidden \o c.visible

\* what try_peek(number) answered in the state the peek was made in
TryPeeked == CardOrigin_try_peek(call.origin.kind, PreOrigin, call.number)

\* C22: for Deck, Pile and Foundation, in every state and for every n: if try_peek(n)
\* returns cards, peek(n) removes and returns exactly those cards in the same order;
\* if try_peek(n) refuses, peek(n) returns an empty sequence and leaves the container
\* unchanged. (try_peek takes &self: it has no state to change.)
C22_PeekAgreesWithTryPeek ==
    (pc = "peeked" /\ call.op = "peek")
        => /\ call.ret = TryPeeked.some
           /\ TryPeeked.some =>
                 /\ call.snap = TryPeeked.cards
                 /\ Len(call.snap) = call.number
                 /\ Held(call.origin.kind, UnitOrigin) \o call.snap
                        = Held(call.origin.kind, PreOrigin)
                 /\ call.origin.kind = "DECK" => UnitOrigin.stock = PreOrigin.stock
           /\ ~TryPeeked.some => (call.snap = <<>> /\ Game = Pre)

\* two of the visible cards of a Foundation have been peeked
C22_Witness ==
    /\ pc = "peeked" /\ call.op = "peek"
    /\ call.origin.kind = "FOUNDATION"
    /\ call.number = 2
    /\ TryPeeked.some
    /\ call.snap = LastN(PreOrigin.visible, 2)
    /\ Len(call.snap) = 2

\* what the calls of log l have left stored under id: the game of the latest save
\* or update of id, unless a delete of id came after it
RECURSIVE LastStored(_, _)
LastStored(l, id) ==
    IF l = <<>> THEN Absent
    ELSE IF l[Len(l)].id = id /\ l[Len(l)].op \in {"save", "update"}
         THEN l[Len(l)].klondike
    ELSE IF l[Len(l)].id = id /\ l[Len(l)].op = "delete" THEN Absent
    ELSE LastStored(DropLastN(l, 1), id)

\* some call of log l has stored a game under id
EverStored(l, id) == \E i \in DOMAIN l : l[i].id = id /\ l[i].op \in {"save", "update"}

LastCall == log[Len(log)]

\* C24: for a KlondikeRepository, after any sequence of calls, get(id) returns the
\* game most recently stored under id by save or update; a save or an update of one
\* id never changes what get returns for another id; get of an id under which
\* nothing was ever stored returns None.
C24_GetReturnsTheLastStoredGame ==
    /\ \A id \in Ids :
          /\ KlondikeHashMapRepository_get(games, id) = LastStored(log, id)
          /\ ~EverStored(log, id) => KlondikeHashMapRepository_get(games, id) = Absent
    /\ (log # <<>> /\ LastCall.op = "get")
          => LastCall.ret = LastStored(DropLastN(log, 1), LastCall.id)
    /\ (log # <<>> /\ LastCall.op \in {"save", "update"})
          => \A id \in Ids \ {LastCall.id} :
                KlondikeHashMapRepository_get(games, id) = LastStored(DropLastN(log, 1), id)

\* a game was saved, another was saved under the other id, the first was updated,
\* and get has returned the updated game
C24_Witness ==
    /\ Len(log) = 4
    /\ log[1].op = "save" /\ log[2].op = "save" /\ log[3].op = "update"
    /\ log[3].id = log[1].id /\ log[3].klondike # log[1].klondike
    /\ LastCall.op = "get" /\ LastCall.id = log[1].id
    /\ LastCall.ret = log[3].klondike
    /\ KlondikeHashMapRepository_get(games, log[2].id) = log[2].klondike

\* C25: delete(id) of a stored game returns that game and removes it, so that a
\* delete(id) repeated at once and a get(id) return None; delete of an unknown id
\* returns None; deleting one id leaves the games stored under every other id
\* unchanged.
C25_DeleteReturnsAndRemoves ==
    (log # <<>> /\ LastCall.op = "delete")
        => /\ LastCall.ret = LastStored(DropLastN(log, 1), LastCall.id)
           /\ KlondikeHashMapRepository_get(games, LastCall.id) = Absent
           /\ KlondikeHashMapRepository_delete(games, LastCall.id).ret = Absent
           /\ \A id \in Ids \ {LastCall.id} :
                 KlondikeHashMapRepository_get(games, id) = LastStored(DropLastN(log, 1), id)
           /\ (Len(log) > 1 /\ log[Len(log) - 1].op = "delete"
                            /\ log[Len(log) - 1].id = LastCall.id)
                 => LastCall.ret = Absent

\* two games were saved, the first was deleted and returned, and its delete repeated
\* at once has returned None while the second game is still stored
C25_Witness ==
    /\ Len(log) = 4
    /\ log[1].op = "save" /\ log[2].op = "save"
    /\ log[3].op = "delete" /\ log[3].id = log[1].id /\ log[3].ret = log[1].klondike
    /\ LastCall.op = "delete" /\ LastCall.id = log[1].id /\ LastCall.ret = Absent
    /\ KlondikeHashMapRepository_get(games, log[2].id) = log[2].klondike

\* request r is in the middle of its read-modify-write cycle: it has loaded the game
\* of its id and has not persisted it yet
InCycle(r) == threads[r].op \in {"get_status", "take", "undo"}
              /\ threads[r].pc \in {"get_access", "update"}

\* C23: at most one mutation is in flight per game id: while a request's cycle of
\* loading the game by id, applying one operation and persisting it under the same
\* id is running, no other actor, neither another request nor the cleanup sweep,
\* updates or deletes the stored game of that id: the stored game is still the one
\* the request loaded.
C23_OneMutationInFlightPerGame ==
    \A r \in Requests :
        InCycle(r) => KlondikeHashMapRepository_get(games, threads[r].id) = threads[r].x

\* C26: the sweep deletes a stored game only if the game has not been accessed for
\* longer than the timeout: when it deletes one, the wrapper has no access to it on
\* record that is Timeout old or younger.
C26_SweepDeletesOnlyExpiredGames ==
    (sweep.last.some /\ sweep.last.value.game.some /\ sweep.last.value.access.some)
        => sweep.last.value.at - sweep.last.value.access.value > Timeout

\* the references that name a container of the game
ValidHolders == {h \in CardHolders : ValidHolder(h)}

\* the cards that container h of game g offers to a move, bottom to top
HeldBy(g, h) == Held(h.kind, Container(g, h))

\* C27: undo() reverses the recorded actions in strict last-in-first-out order: each
\* undo() pops the most recent recorded action and applies its inverse with that
\* action's own origin, destination and count, so that the j-th consecutive undo()
\* reverses the j-th most recent successful action; a move_cards that returned false
\* is never recorded and so never undone.
C27_UndoIsLastInFirstOut ==
    /\ Len(snapshots) = Len(history)
    /\ \A i \in DOMAIN snapshots : snapshots[i].history = SubSeq(history, 1, i - 1)
    /\ (pc = "returned" /\ call.op = "move_cards")
          => history = IF call.ret
                       THEN Append(Pre.history, KlondikeAction_MOVE(call.origin,
                                                    call.destination, call.number))
                       ELSE Pre.history
    /\ (pc = "returned" /\ call.op = "undo" /\ Pre.history # <<>>)
          => /\ history = DropLastN(Pre.history, 1)
             /\ call.snap[1].history = history
             /\ Undone.kind = "MOVE" =>
                   /\ HeldBy(Game, Undone.destination)
                         = DropLastN(HeldBy(Pre, Undone.destination), Undone.number)
                   /\ HeldBy(Game, Undone.origin)
                         = HeldBy(Pre, Undone.origin)
                              \o LastN(HeldBy(Pre, Undone.destination), Undone.number)
                   /\ \A h \in ValidHolders \ {Undone.origin, Undone.destination} :
                         Container(Game, h) = Container(Pre, h)
             /\ Undone.kind = "TAKE" =>
                   /\ piles = Pre.piles /\ foundations = Pre.foundations
                   /\ Deck_get_status(deck) = Deck_get_status(call.snap[1].deck)

\* of two different recorded moves the later one, a move of two cards between
\* Foundations, has been undone and the earlier one is still recorded
C27_Witness ==
    /\ pc = "returned" /\ call.op = "undo"
    /\ Len(Pre.history) = 2
    /\ Pre.history[1] # Pre.history[2]
    /\ Pre.history[1].kind = "MOVE"
    /\ Undone.kind = "MOVE" /\ Undone.number = 2
    /\ history = <<Pre.history[1]>>
    /\ HeldBy(Game, Undone.origin)
          = HeldBy(Pre, Undone.origin) \o LastN(HeldBy(Pre, Undone.destination), 2)

\* the step is a take() of the Deck: one more flag is on its stack
DeckTaken == Len(deck'.take_caused_flip) = Len(deck.take_caused_flip) + 1

\* C28: Deck.take(): if the stock is empty and the waste is not, the whole waste is
\* first moved onto the stock in reversed order, so that the oldest waste card is the
\* stock's top; then, if the stock is not empty, exactly its top card is moved onto
\* the waste; if stock and waste are both empty the cards are unchanged.
C28_TakeDrawsOneCardAfterFlip ==
    [][DeckTaken =>
         IF deck.stock # <<>>
         THEN /\ deck'.stock = DropLastN(deck.stock, 1)
              /\ deck'.waste = Append(deck.waste, deck.stock[Len(deck.stock)])
         ELSE IF deck.waste # <<>>
         THEN /\ deck'.waste = <<deck.waste[1]>>
              /\ Len(deck'.stock) = Len(deck.waste) - 1
              /\ \A i \in DOMAIN deck'.stock :
                    deck'.stock[i] = deck.waste[Len(deck.waste) - i + 1]
         ELSE deck'.stock = <<>> /\ deck'.waste = <<>>]_vars

\* a take has just flipped a waste of three cards and drawn the oldest of them
C28_Witness ==
    /\ pc = "setup"
    /\ deck.take_caused_flip # <<>>
    /\ deck.take_caused_flip[Len(deck.take_caused_flip)]
    /\ Len(deck.stock) = 2 /\ Len(deck.waste) = 1
    /\ deck.waste[1] = FullDeck[3]
    /\ deck.stock = <<FullDeck[1], FullDeck[2]>>

\* the Deck as it was when the run of takes began
RunStart == call.pre[2]

\* C29: with no move in between, N consecutive take() calls on a Deck that holds
\* N >= 1 cards in all and whose waste is not empty bring stock and waste back to
\* exactly the same card sequences.
C29_TakesCycleThroughTheDeck ==
    (pc = "taking"
       /\ RunStart.waste # <<>>
       /\ Len(snapshots) = Len(RunStart.stock) + Len(RunStart.waste))
        => (deck.stock = RunStart.stock /\ deck.waste = RunStart.waste)

\* three takes on a Deck of three cards, one of them on the waste, have come round,
\* the waste having been flipped on the way
C29_Witness ==
    /\ pc = "taking"
    /\ Len(RunStart.stock) = 2 /\ Len(RunStart.waste) = 1
    /\ Len(snapshots) = 3
    /\ call.number = 1
    /\ deck.stock = RunStart.stock /\ deck.waste = RunStart.waste

\* the peek that has just been made took every visible card of a Foundation that
\* had hidden cards
TookAllVisible == call.number = Len(PreOrigin.visible) /\ PreOrigin.hidden # <<>>

\* C30: when Foundation.peek(n) removes all the visible cards and hidden is not
\* empty, exactly one card, the last hidden one, becomes the only visible card and
\* num_hidden decreases by exactly one; when the peek leaves a visible card, or
\* hidden is empty, hidden is unchanged; undoing the peek hides the same card again
\* and restores num_hidden.
C30_PeekTurnsOneHiddenCard ==
    (call.origin.kind = "FOUNDATION" /\ call.ret)
        => /\ pc = "peeked" =>
                 IF TookAllVisible
                 THEN /\ UnitOrigin.visible = <<PreOrigin.hidden[Len(PreOrigin.hidden)]>>
                      /\ UnitOrigin.hidden = DropLastN(PreOrigin.hidden, 1)
                      /\ Foundation_get_status(UnitOrigin).num_hidden
                            = Foundation_get_status(PreOrigin).num_hidden - 1
                 ELSE /\ UnitOrigin.hidden = PreOrigin.hidden
                      /\ UnitOrigin.visible = DropLastN(PreOrigin.visible, call.number)
           /\ pc = "unpeeked" =>
                 /\ UnitOrigin.hidden = PreOrigin.hidden
                 /\ UnitOrigin.visible = PreOrigin.visible
                 /\ Foundation_get_status(UnitOrigin) = Foundation_get_status(PreOrigin)

\* both visible cards of a Foundation with two hidden cards have been peeked and
\* the upper hidden card alone has been turned
C30_Witness ==
    /\ pc = "peeked" /\ call.ret
    /\ call.origin.kind = "FOUNDATION"
    /\ call.number = 2
    /\ TookAllVisible
    /\ Len(PreOrigin.hidden) = 2
    /\ Len(UnitOrigin.hidden) = 1
    /\ UnitOrigin.visible = <<PreOrigin.hidden[2]>>

\* C31: Foundation.try_peek(n) succeeds iff 0 < n <= len(visible) and then returns
\* the top n visible cards, bottom to top; it refuses n = 0, and n > len(visible)
\* even when hidden and visible together hold n cards: no hidden card is yielded.
C31_TryPeekYieldsVisibleCardsOnly ==
    (pc = "peeked" /\ call.origin.kind = "FOUNDATION")
        => /\ TryPeeked.some <=> (0 < call.number /\ call.number <= Len(PreOrigin.visible))
           /\ TryPeeked.some =>
                 /\ Len(TryPeeked.cards) = call.number
                 /\ \A i \in 1..call.number :
                       TryPeeked.cards[i]
                          = PreOrigin.visible[Len(PreOrigin.visible) - call.number + i]
           /\ ~TryPeeked.some => TryPeeked.cards = <<>>

\* two cards were asked of a Foundation with one visible card over two hidden ones,
\* and were refused
C31_Witness ==
    /\ pc = "peeked" /\ call.origin.kind = "FOUNDATION"
    /\ call.number = 2
    /\ Len(PreOrigin.visible) = 1 /\ Len(PreOrigin.hidden) = 2
    /\ ~TryPeeked.some
    /\ UnitOrigin = PreOrigin

\* C32: move_cards with n different from 1 returns false whenever the origin is the
\* Deck or a Pile, or the destination is a Pile: only a move from a Foundation to a
\* Foundation can transfer more than one card in one call.
C32_OnlyFoundationsMoveSeveralCards ==
    (pc # "idle" /\ call.op = "move_cards" /\ call.number # 1
       /\ ValidHolder(call.origin) /\ ValidHolder(call.destination)
       /\ (call.origin.kind \in {"DECK", "PILE"} \/ call.destination.kind = "PILE"))
        => (pc = "returned" /\ ~call.ret /\ Game = Pre)

\* two cards were asked of the Deck, whose top waste card alone the destination
\* would have accepted
C32_Witness ==
    /\ pc = "returned" /\ call.op = "move_cards" /\ call.number = 2
    /\ call.origin = DECK /\ ValidHolder(call.destination)
    /\ call.destination.kind = "FOUNDATION"
    /\ Legal(Pre, call.origin, call.destination, 1)
    /\ ~call.ret

\* C33: after a successful move_cards(from, to, n) the top n cards of the destination
\* are exactly the n cards that were on top of the origin, in the same order; the
\* origin has lost exactly those cards; the cards below them in both containers keep
\* their order (a Foundation origin may have turned its last hidden card).
C33_MoveCarriesTheTopCards ==
    (pc = "returned" /\ call.op = "move_cards" /\ call.ret)
        => /\ call.number >= 1
           /\ Len(HeldBy(Pre, call.origin)) >= call.number
           /\ LastN(HeldBy(Game, call.destination), call.number)
                 = LastN(HeldBy(Pre, call.origin), call.number)
           /\ HeldBy(Game, call.origin) = DropLastN(HeldBy(Pre, call.origin), call.number)
           /\ DropLastN(HeldBy(Game, call.destination), call.number)
                 = HeldBy(Pre, call.destination)
           /\ call.origin.kind = "FOUNDATION" =>
                 /\ call.number <= Len(Container(Pre, call.origin).visible)
                 /\ Len(Container(Pre, call.origin).hidden)
                       - Len(Container(Game, call.origin).hidden) \in {0, 1}
           /\ call.destination.kind = "FOUNDATION" =>
                 Container(Game, call.destination).hidden
                    = Container(Pre, call.destination).hidden

\* two cards have gone from one Foundation, which turned a hidden card, onto another
C33_Witness ==
    /\ pc = "returned" /\ call.op = "move_cards" /\ call.ret
    /\ call.number = 2
    /\ call.origin.kind = "FOUNDATION" /\ call.destination.kind = "FOUNDATION"
    /\ Len(Container(Game, call.origin).hidden) < Len(Container(Pre, call.origin).hidden)
    /\ LastN(Container(Game, call.destination).visible, 2)
          = Container(Pre, call.origin).visible

\* the number of Take entries of history h
Takes(h) == Cardinality({i \in DOMAIN h : h[i].kind = "TAKE"})

\* the number of Move entries of history h whose origin is holder o
MovesFrom(h, o) == Cardinality({i \in DOMAIN h : h[i].kind = "MOVE" /\ h[i].origin = o})

\* C34: in every reachable game state the Deck's flip-flag stack holds one entry per
\* Take of the history plus the one of the draw at construction, and each
\* Foundation's flag stack holds one entry per Move of the history whose origin is
\* that Foundation; so every undo pops the flag that the action it reverses pushed.
C34_FlagStacksFollowTheHistory ==
    /\ Len(deck.take_caused_flip) = Takes(history) + 1
    /\ \A j \in DOMAIN foundations :
          Len(foundations[j].peek_caused_flip) = MovesFrom(history, FOUNDATION(j - 1))
    /\ (pc = "returned" /\ call.op = "undo" /\ Pre.history # <<>>)
          => /\ deck.take_caused_flip
                   = IF Undone.kind = "TAKE" THEN DropLastN(Pre.deck.take_caused_flip, 1)
                     ELSE Pre.deck.take_caused_flip
             /\ \A j \in DOMAIN foundations :
                   foundations[j].peek_caused_flip
                      = IF Undone.kind = "MOVE" /\ Undone.origin = FOUNDATION(j - 1)
                        THEN DropLastN(Pre.foundations[j].peek_caused_flip, 1)
                        ELSE Pre.foundations[j].peek_caused_flip

\* after a take and a move that turned a hidden card of a Foundation, the undo of the
\* move has popped the Foundation's flag and left the Deck's two flags
C34_Witness ==
    /\ pc = "returned" /\ call.op = "undo"
    /\ Len(Pre.history) = 2
    /\ Pre.history[1].kind = "TAKE"
    /\ Undone.kind = "MOVE" /\ Undone.origin.kind = "FOUNDATION"
    /\ Container(Pre, Undone.origin).peek_caused_flip = <<TRUE>>
    /\ Container(Game, Undone.origin).peek_caused_flip = <<>>
    /\ Len(deck.take_caused_flip) = 2

\* game id is stored and its last access, made at t, is older than the timeout
Inactive(id, t) ==
    /\ id \in DOMAIN games
    /\ id \in DOMAIN times /\ times[id] = t
    /\ now - t > Timeout

\* game id is gone from the delegate with its last-access entry, or it was accessed
\* after t
DeletedOrAccessed(id, t) ==
    \/ id \notin DOMAIN games /\ id \notin DOMAIN times
    \/ id \in DOMAIN times /\ times[id] # t

\* a stored game without a last-access entry is in the hands of a handler that is
\* about to record its access, or of the sweep that is about to delete it
Accounted(id) ==
    \/ id \in DOMAIN times
    \/ id \in sweep.to_remove
    \/ \E r \in Requests : /\ threads[r].id = id
                           /\ threads[r].pc \in {"save_access", "get_access", "update",
                                                 "update_access"}

\* C35: with the cleanup wrapper, as long as the sweep keeps being scheduled, a stored
\* game whose inactivity exceeds the timeout and that is not accessed again is
\* eventually deleted from the delegate repository, and its last-access entry is
\* removed as well; no stored game is left without a last-access entry to expire.
C35_InactiveGamesAreEventuallyDeleted ==
    /\ \A id \in Ids, t \in 0..MaxNow : Inactive(id, t) ~> DeletedOrAccessed(id, t)
    /\ [](\A id \in DOMAIN games : Accounted(id))

\* the sweep has just deleted a game that no handler holds, after its last access
\* went older than the timeout, and its last-access entry is gone as well
C35_Witness ==
    /\ sweep.last.some /\ sweep.last.value.game.some
    /\ sweep.last.value.at = now
    /\ sweep.last.value.access = Absent
    /\ sweep.last.value.id \notin DOMAIN games
    /\ sweep.last.value.id \notin DOMAIN times
    /\ \A r \in Requests : threads[r] = Idle
    /\ sweep.pc = "waiting"

\* cards is empty or the Ace, 2, ..., k of one suit, bottom to top
AscendingSuit(cards) ==
    \A i \in DOMAIN cards : cards[i].rank = ACE + i - 1 /\ cards[i].suit = cards[1].suit

\* C36: in every reachable game state every Pile is empty or holds, from bottom to
\* top, the Ace, 2, ..., k of one single suit with no gaps.
C36_PilesAscendInOneSuit ==
    \A i \in DOMAIN piles : AscendingSuit(piles[i].cards)

\* a move has just put the 2 of a suit on its Ace
C36_Witness ==
    /\ pc = "returned" /\ call.ret
    /\ call.op \in {"move_cards", "to_pile"}
    /\ \E i \in DOMAIN piles :
          /\ Len(piles[i].cards) = 2
          /\ Len(Pre.piles[i].cards) = 1
          /\ piles[i].cards[2] = Card(piles[i].cards[1].suit, ACE + 1)

\* cards is a run: each card above the bottom one is one rank lower than the card
\* directly beneath it and of the other colour
DescendingAlternate(cards) ==
    \A i \in 2..Len(cards) :
        /\ cards[i].rank + 1 = cards[i - 1].rank
        /\ IsRed(cards[i]) # IsRed(cards[i - 1])

\* C37: in every reachable game state the visible sequence of every Foundation is a
\* run: each visible card above the bottom one is exactly one rank lower than, and of
\* the opposite colour to, the visible card directly beneath it (although acceptance
\* looks at the first offered card only).
C37_VisibleCardsFormARun ==
    \A j \in DOMAIN foundations : DescendingAlternate(foundations[j].visible)

\* two cards moved together from a Foundation lie on a third visible card, of which
\* only the lower of the two was checked
C37_Witness ==
    /\ pc = "returned" /\ call.op = "move_cards" /\ call.ret
    /\ call.number = 2
    /\ call.destination.kind = "FOUNDATION"
    /\ Len(Container(Game, call.destination).visible) >= 3
    /\ Len(Container(Pre, call.destination).visible) >= 1

\* C38: undo can be redone: right after undo() has reversed a successful
\* move_cards(from, to, n), move_cards(from, to, n) returns true and yields the state
\* that held before the undo; likewise take() after undoing a take yields the state
\* that held before the undo.
C38_UndoneActionsCanBeRedone ==
    (pc = "returned" /\ call.op = "undo" /\ Pre.history # <<>>)
        => IF Undone.kind = "MOVE"
           THEN move_cards(Game, Undone.origin, Undone.destination, Undone.number)
                   = Returned(Pre, TRUE)
           ELSE take(Game) = Pre

\* the undo of a move between Foundations has hidden again the card the move had
\* turned, and the move can be made again
C38_Witness ==
    /\ pc = "returned" /\ call.op = "undo" /\ Pre.history # <<>>
    /\ Undone.kind = "MOVE"
    /\ Undone.origin.kind = "FOUNDATION" /\ Undone.destination.kind = "FOUNDATION"
    /\ Len(Container(Game, Undone.origin).hidden) > Len(Container(Pre, Undone.origin).hidden)
    /\ move_cards(Game, Undone.origin, Undone.destination, Undone.number).ret

\* games a and b differ in the containers named by o and d at most, and not in the
\* stock of the Deck
OnlyChanged(a, b, o, d) ==
    /\ \A i \in DOMAIN a.piles : PILE(i - 1) \notin {o, d} => b.piles[i] = a.piles[i]
    /\ \A j \in DOMAIN a.foundations :
          FOUNDATION(j - 1) \notin {o, d} => b.foundations[j] = a.foundations[j]
    /\ DOMAIN b.piles = DOMAIN a.piles /\ DOMAIN b.foundations = DOMAIN a.foundations
    /\ o # DECK => b.deck = a.deck
    /\ b.deck.stock = a.deck.stock /\ b.deck.take_caused_flip = a.deck.take_caused_flip

\* C39: a successful move_cards(from, to, n), and its undo, change only the two
\* containers named by from and to: every other Pile and every other Foundation is
\* unchanged, the Deck is unchanged when it is not the origin, and a Deck-origin move
\* never changes the stock.
C39_MovesTouchOnlyTheirTwoContainers ==
    /\ (pc = "returned" /\ call.op = "move_cards" /\ call.ret)
          => /\ OnlyChanged(Pre, Game, call.origin, call.destination)
             /\ Container(Game, call.origin) # Container(Pre, call.origin)
             /\ Container(Game, call.destination) # Container(Pre, call.destination)
    /\ (pc = "returned" /\ call.op = "undo" /\ Pre.history # <<>> /\ Undone.kind = "MOVE")
          => /\ OnlyChanged(Pre, Game, Undone.origin, Undone.destination)
             /\ Container(Game, Undone.origin) # Container(Pre, Undone.origin)
             /\ Container(Game, Undone.destination) # Container(Pre, Undone.destination)

\* the undo of a move from the Deck to a Foundation, made while another Pile and
\* another Foundation had been changed by an earlier move
C39_Witness ==
    /\ pc = "returned" /\ call.op = "undo"
    /\ Len(Pre.history) = 2
    /\ Undone.kind = "MOVE" /\ Undone.origin = DECK
    /\ Undone.destination.kind = "FOUNDATION"
    /\ Pre.history[1].kind = "MOVE"
    /\ Pre.history[1].origin.kind = "FOUNDATION"
    /\ Pre.history[1].origin # Undone.destination
    /\ Pre.history[1].destination.kind = "PILE"
    /\ deck.waste # Pre.deck.waste

\* the hidden cards Foundation j (1-based) was dealt
DealtHidden(j) == new_with_mover(Shuffles[seed]).foundations[j].hidden

\* s is a prefix of u
IsPrefix(s, u) == Len(s) <= Len(u) /\ s = SubSeq(u, 1, Len(s))

\* C40: in every reachable game state each Foundation's hidden sequence is a prefix of
\* the hidden sequence it was dealt: hidden cards are never reordered, no card that
\* came from another container ever becomes hidden, and Foundation(j) never has more
\* than j hidden cards.
C40_HiddenCardsAreADealtPrefix ==
    \A j \in DOMAIN foundations :
        /\ IsPrefix(foundations[j].hidden, DealtHidden(j))
        /\ Len(foundations[j].hidden) <= j - 1

\* an undo has hidden again the card a move had turned, under cards that had been
\* visible on the Foundation: it has its dealt hidden cards back after having had fewer
C40_Witness ==
    /\ pc = "returned" /\ call.op = "undo" /\ Pre.history # <<>>
    /\ Undone.kind = "MOVE" /\ Undone.origin.kind = "FOUNDATION"
    /\ Len(Container(Pre, Undone.origin).hidden) + 1 = Len(Container(Game, Undone.origin).hidden)
    /\ Container(Game, Undone.origin).hidden = DealtHidden(Undone.origin.idx + 1)
    /\ Container(Game, Undone.origin).hidden # <<>>

=============================================================================
